---- MODULE Spec2Model ----
(***************************************************************************)
(* CooPad host-side packet pipeline: the token bucket and the admission    *)
(* controller of gp/core/security.py and the session orchestrator of       *)
(* gp/core/host.py.  Time is counted in whole seconds; both clocks the     *)
(* code reads (time.time and time.perf_counter_ns) advance together, and   *)
(* one handler reads one clock value.                                      *)
(***************************************************************************)
EXTENDS Integers, Sequences, FiniteSets, TLC

VARIABLES
    now,     \* time.time(), seconds since the objects were constructed
    ticks,   \* number of clock advances so far (bounds the run)
    cfg,     \* SecurityConfig of the SecurityManager
    sec,     \* SecurityManager: its dictionaries and _last_cleanup
    last,    \* the last operation carried out and its result
    tb,      \* a stand-alone TokenBucket and the results of its consume calls
    host,    \* GamepadHost: mode, single-owner state and the sessions
    wire,    \* a GamepadState at the sender and what pack / unpack make of it
    run,     \* GamepadHost._thread, _stop and _sock, and where each receive thread is
    inflight,\* calls in progress on the SecurityManager, and where each one is
    passed   \* what became of each check_packet call at the two rate stages

vars == <<now, ticks, cfg, sec, last, tb, host, wire, run, inflight, passed>>

----------------------------------------------------------------------------
(* Bounds of the model *)

MaxClientId == 1
MaxIp == 2
MaxTicks == 2
MaxRate == 2
MaxBurst == 5
MaxCalls == 7
MaxSleep == 3
MaxSeq == 2
MaxPackets == 3
MaxHostTicks == 1
MaxSlotTicks == 2
MaxSlotPackets == 6
MaxStarts == 2
MaxStops == 2
MaxRunPackets == 2
MaxOperCalls == 2
MaxEventsPerTick == 2
MaxRateCalls == 6

ClientIds == 0..MaxClientId
Ips == 1..MaxIp

(* Constants written in the code *)

CleanupInterval == 60
InactiveWindow == 300
EventLogCap == 1000
PerfOrigin == 5

----------------------------------------------------------------------------
(* Dictionaries *)

Min(a, b) == IF a < b THEN a ELSE b

EmptyMap == [x \in {} |-> 0]

Put(f, k, v) == [x \in DOMAIN f \cup {k} |-> IF x = k THEN v ELSE f[x]]

Del(f, k) == [x \in DOMAIN f \ {k} |-> f[x]]

perf_counter(t) == PerfOrigin + t

----------------------------------------------------------------------------
(* TokenBucket *)

TokenBucket(rate, burst, t) ==
    [rate |-> rate, burst |-> burst, tokens |-> burst, last_update |-> t]

consume_never_refills(b, tokens, t) ==
    IF b.tokens >= tokens
    THEN [bucket |-> [b EXCEPT !.last_update = t, !.tokens = b.tokens - tokens],
          ok |-> TRUE]
    ELSE [bucket |-> [b EXCEPT !.last_update = t], ok |-> FALSE]

consume(b, tokens, t) ==
    LET elapsed == t - b.last_update
        level == Min(b.burst, b.tokens + elapsed * b.rate)
    IN  IF level >= tokens
        THEN [bucket |-> [b EXCEPT !.last_update = t, !.tokens = level - tokens],
              ok |-> TRUE]
        ELSE [bucket |-> [b EXCEPT !.last_update = t, !.tokens = level],
              ok |-> FALSE]

----------------------------------------------------------------------------
(* SecurityConfig, ClientStats, SecurityManager *)

\* The fields of SecurityConfig with the small values the tests configure
\* (rates in tokens per second, durations in seconds).
SecurityConfig(enable_whitelist) ==
    [rate_limit_max |-> 1, rate_limit_burst |-> 1, ip_rate_limit_max |-> 2,
     max_clients_per_ip |-> 1, auto_block_threshold |-> 2, block_duration |-> 1,
     max_timestamp_age |-> 2, max_timestamp_future |-> 1,
     enable_whitelist |-> enable_whitelist, whitelist_ips |-> {1},
     log_security_events |-> FALSE, log_blocked_packets |-> FALSE]

\* SecurityConfig() as the dataclass defaults give it, which a GamepadHost
\* constructed without a security_config uses.
DefaultSecurityConfig ==
    [rate_limit_max |-> 120, rate_limit_burst |-> 20, ip_rate_limit_max |-> 200,
     max_clients_per_ip |-> 3, auto_block_threshold |-> 5, block_duration |-> 300,
     max_timestamp_age |-> 5, max_timestamp_future |-> 1,
     enable_whitelist |-> FALSE, whitelist_ips |-> {},
     log_security_events |-> TRUE, log_blocked_packets |-> FALSE]

ClientStats(client_id, ip_address, t) ==
    [client_id |-> client_id, ip_address |-> ip_address, first_seen |-> t,
     last_seen |-> t, packet_count |-> 1, violations |-> 0, blocked_until |-> 0]

is_blocked(client, t) == t < client.blocked_until

SecurityManager(t) ==
    [clients |-> EmptyMap, ip_clients |-> EmptyMap, client_buckets |-> EmptyMap,
     ip_buckets |-> EmptyMap, blocked_ips |-> EmptyMap, security_events |-> <<>>,
     last_cleanup |-> t]

_log_security_event(s, c, t, event_type, ip, cid, detail) ==
    IF ~c.log_security_events
    THEN s
    ELSE LET ev == Append(s.security_events,
                          [timestamp |-> t, type |-> event_type, ip |-> ip,
                           client_id |-> cid, detail |-> detail])
         IN  [s EXCEPT !.security_events =
                  IF Len(ev) > EventLogCap
                  THEN SubSeq(ev, Len(ev) - EventLogCap + 1, Len(ev))
                  ELSE ev]

_record_violation_no_block(s, c, t, cid, ip, reason) ==
    LET s1 == IF cid \in DOMAIN s.clients
              THEN [s EXCEPT !.clients[cid].violations = @ + 1]
              ELSE s
        s2 == IF ip \notin DOMAIN s1.ip_clients
              THEN [s1 EXCEPT !.ip_clients = Put(@, ip, {})]
              ELSE s1
    IN  _log_security_event(s2, c, t, "violation", ip, cid, reason)

_record_violation(s, c, t, cid, ip, reason) ==
    LET s1 == IF cid \in DOMAIN s.clients
              THEN LET v == s.clients[cid].violations + 1
                       counted == [s EXCEPT !.clients[cid].violations = v]
                   IN  IF v >= c.auto_block_threshold
                       THEN _log_security_event(
                                [counted EXCEPT !.clients[cid].blocked_until =
                                                    t + c.block_duration],
                                c, t, "auto_block_client", ip, cid, reason)
                       ELSE counted
              ELSE s
        s2 == IF ip \notin DOMAIN s1.ip_clients
              THEN [s1 EXCEPT !.ip_clients = Put(@, ip, {})]
              ELSE s1
    IN  _log_security_event(s2, c, t, "violation", ip, cid, reason)

_validate_timestamp_inclusive(c, t, timestamp) ==
    LET packet_age_s == perf_counter(t) - timestamp
    IN  /\ ~(packet_age_s >= c.max_timestamp_age)
        /\ ~(packet_age_s <= -c.max_timestamp_future)

_validate_timestamp(c, t, timestamp) ==
    LET packet_age_s == perf_counter(t) - timestamp
    IN  /\ ~(packet_age_s > c.max_timestamp_age)
        /\ ~(packet_age_s < -c.max_timestamp_future)

_check_ip_rate_limit_shared(s, c, t, ip) ==
    LET key == 1
        s1 == IF key \notin DOMAIN s.ip_buckets
              THEN [s EXCEPT !.ip_buckets =
                       Put(@, key, TokenBucket(c.ip_rate_limit_max,
                                               c.rate_limit_burst, t))]
              ELSE s
        r == consume(s1.ip_buckets[key], 1, t)
    IN  [s |-> [s1 EXCEPT !.ip_buckets[key] = r.bucket], ok |-> r.ok]

_check_ip_rate_limit(s, c, t, ip) ==
    LET s1 == IF ip \notin DOMAIN s.ip_buckets
              THEN [s EXCEPT !.ip_buckets =
                       Put(@, ip, TokenBucket(c.ip_rate_limit_max,
                                              c.rate_limit_burst, t))]
              ELSE s
        r == consume(s1.ip_buckets[ip], 1, t)
    IN  [s |-> [s1 EXCEPT !.ip_buckets[ip] = r.bucket], ok |-> r.ok]

_check_client_rate_limit(s, c, t, cid) ==
    LET s1 == IF cid \notin DOMAIN s.client_buckets
              THEN [s EXCEPT !.client_buckets =
                       Put(@, cid, TokenBucket(c.rate_limit_max,
                                               c.rate_limit_burst, t))]
              ELSE s
        r == consume(s1.client_buckets[cid], 1, t)
    IN  [s |-> [s1 EXCEPT !.client_buckets[cid] = r.bucket], ok |-> r.ok]

_check_clients_per_ip_no_cap(s, c, cid, ip) ==
    LET s1 == IF ip \notin DOMAIN s.ip_clients
              THEN [s EXCEPT !.ip_clients = Put(@, ip, {})]
              ELSE s
    IN  [s |-> [s1 EXCEPT !.ip_clients[ip] = @ \cup {cid}], ok |-> TRUE]

_check_clients_per_ip(s, c, cid, ip) ==
    LET s1 == IF ip \notin DOMAIN s.ip_clients
              THEN [s EXCEPT !.ip_clients = Put(@, ip, {})]
              ELSE s
        clients == s1.ip_clients[ip]
    IN  IF cid \in clients
        THEN [s |-> s1, ok |-> TRUE]
        ELSE IF Cardinality(clients) >= c.max_clients_per_ip
             THEN [s |-> s1, ok |-> FALSE]
             ELSE [s |-> [s1 EXCEPT !.ip_clients[ip] = clients \cup {cid}],
                   ok |-> TRUE]

_update_client_stats_forgives(s, t, cid, ip) ==
    IF cid \notin DOMAIN s.clients
    THEN [s EXCEPT !.clients = Put(@, cid, ClientStats(cid, ip, t))]
    ELSE [s EXCEPT !.clients[cid].last_seen = t,
                   !.clients[cid].packet_count = @ + 1,
                   !.clients[cid].violations = 0]

_update_client_stats(s, t, cid, ip) ==
    IF cid \notin DOMAIN s.clients
    THEN [s EXCEPT !.clients = Put(@, cid, ClientStats(cid, ip, t))]
    ELSE [s EXCEPT !.clients[cid].last_seen = t,
                   !.clients[cid].packet_count = @ + 1]

_cleanup_old_data_evicts_blocked(s, t) ==
    LET expired_blocks == {ip \in DOMAIN s.blocked_ips : t >= s.blocked_ips[ip]}
        inactive_clients ==
            {cid \in DOMAIN s.clients : s.clients[cid].last_seen < t - InactiveWindow}
        ip_clients1 ==
            [ip \in DOMAIN s.ip_clients |->
                s.ip_clients[ip] \
                    {cid \in inactive_clients : s.clients[cid].ip_address = ip}]
        empty_ips == {ip \in DOMAIN ip_clients1 : Cardinality(ip_clients1[ip]) = 0}
    IN  [s EXCEPT
            !.last_cleanup = t,
            !.blocked_ips = [ip \in DOMAIN @ \ expired_blocks |-> @[ip]],
            !.clients = [cid \in DOMAIN @ \ inactive_clients |-> @[cid]],
            !.client_buckets = [cid \in DOMAIN @ \ inactive_clients |-> @[cid]],
            !.ip_clients = [ip \in DOMAIN ip_clients1 \ empty_ips |-> ip_clients1[ip]],
            !.ip_buckets = [ip \in DOMAIN @ \ empty_ips |-> @[ip]]]

_cleanup_old_data(s, t) ==
    LET expired_blocks == {ip \in DOMAIN s.blocked_ips : t >= s.blocked_ips[ip]}
        inactive_threshold == t - InactiveWindow
        inactive_clients ==
            {cid \in DOMAIN s.clients :
                /\ s.clients[cid].last_seen < inactive_threshold
                /\ ~is_blocked(s.clients[cid], t)}
        ip_clients1 ==
            [ip \in DOMAIN s.ip_clients |->
                s.ip_clients[ip] \
                    {cid \in inactive_clients : s.clients[cid].ip_address = ip}]
        empty_ips == {ip \in DOMAIN ip_clients1 : Cardinality(ip_clients1[ip]) = 0}
    IN  [s EXCEPT
            !.last_cleanup = t,
            !.blocked_ips = [ip \in DOMAIN @ \ expired_blocks |-> @[ip]],
            !.clients = [cid \in DOMAIN @ \ inactive_clients |-> @[cid]],
            !.client_buckets = [cid \in DOMAIN @ \ inactive_clients |-> @[cid]],
            !.ip_clients = [ip \in DOMAIN ip_clients1 \ empty_ips |-> ip_clients1[ip]],
            !.ip_buckets = [ip \in DOMAIN @ \ empty_ips |-> @[ip]]]

----------------------------------------------------------------------------
(* SecurityManager.check_packet.  A packet p is [client_id, ip, timestamp];  *)
(* the result is the manager after the call and the returned pair.           *)
(* The stages are written innermost (last) first: cp_X is check_packet from  *)
(* stage X on.                                                               *)

Result(s, allowed, reason) == [s |-> s, allowed |-> allowed, reason |-> reason]

cp_update_stats(s, c, t, p) ==
    Result(_update_client_stats(s, t, p.client_id, p.ip), TRUE, "OK")

cp_clients_per_ip(s, c, t, p) ==
    LET r == _check_clients_per_ip(s, c, p.client_id, p.ip)
    IN  IF ~r.ok
        THEN Result(_record_violation(r.s, c, t, p.client_id, p.ip, "too_many_clients"),
                    FALSE, "Too many clients from IP")
        ELSE cp_update_stats(r.s, c, t, p)

cp_client_rate(s, c, t, p) ==
    LET r == _check_client_rate_limit(s, c, t, p.client_id)
    IN  IF ~r.ok
        THEN Result(_record_violation(r.s, c, t, p.client_id, p.ip, "client_rate_limit"),
                    FALSE, "Client rate limit exceeded")
        ELSE cp_clients_per_ip(r.s, c, t, p)

cp_ip_rate(s, c, t, p) ==
    LET r == _check_ip_rate_limit(s, c, t, p.ip)
    IN  IF ~r.ok
        THEN Result(_record_violation(r.s, c, t, p.client_id, p.ip, "ip_rate_limit"),
                    FALSE, "IP rate limit exceeded")
        ELSE cp_client_rate(r.s, c, t, p)

cp_timestamp(s, c, t, p) ==
    IF ~_validate_timestamp(c, t, p.timestamp)
    THEN Result(_record_violation(s, c, t, p.client_id, p.ip, "invalid_timestamp"),
                FALSE, "Invalid timestamp")
    ELSE cp_ip_rate(s, c, t, p)

cp_client_block_after_timestamp(s, c, t, p) ==
    IF ~_validate_timestamp(c, t, p.timestamp)
    THEN Result(_record_violation(s, c, t, p.client_id, p.ip, "invalid_timestamp"),
                FALSE, "Invalid timestamp")
    ELSE IF p.client_id \in DOMAIN s.clients /\ is_blocked(s.clients[p.client_id], t)
         THEN Result(s, FALSE, "Client is blocked")
         ELSE cp_ip_rate(s, c, t, p)

cp_client_block(s, c, t, p) ==
    IF p.client_id \in DOMAIN s.clients /\ is_blocked(s.clients[p.client_id], t)
    THEN Result(IF c.log_blocked_packets
                THEN _log_security_event(s, c, t, "blocked_client", p.ip, p.client_id, "")
                ELSE s,
                FALSE, "Client is blocked")
    ELSE cp_timestamp(s, c, t, p)

cp_ip_block_no_expiry(s, c, t, p) ==
    IF p.ip \in DOMAIN s.blocked_ips
    THEN Result(s, FALSE, "IP is blocked")
    ELSE cp_client_block(s, c, t, p)

cp_ip_block(s, c, t, p) ==
    IF p.ip \in DOMAIN s.blocked_ips
    THEN IF t < s.blocked_ips[p.ip]
         THEN Result(IF c.log_blocked_packets
                     THEN _log_security_event(s, c, t, "blocked_ip", p.ip, p.client_id, "")
                     ELSE s,
                     FALSE, "IP is blocked")
         ELSE cp_client_block([s EXCEPT !.blocked_ips = Del(@, p.ip)], c, t, p)
    ELSE cp_client_block(s, c, t, p)

cp_whitelist_records_violation(s, c, t, p) ==
    IF c.enable_whitelist /\ p.ip \notin c.whitelist_ips
    THEN Result(_record_violation(s, c, t, p.client_id, p.ip, "whitelist_reject"),
                FALSE, "IP not in whitelist")
    ELSE cp_ip_block(s, c, t, p)

cp_whitelist(s, c, t, p) ==
    IF c.enable_whitelist /\ p.ip \notin c.whitelist_ips
    THEN Result(_log_security_event(s, c, t, "whitelist_reject", p.ip, p.client_id, ""),
                FALSE, "IP not in whitelist")
    ELSE cp_ip_block(s, c, t, p)

cleanup_due(s, t) == t - s.last_cleanup > CleanupInterval

check_packet(s, c, t, p) ==
    cp_whitelist(IF cleanup_due(s, t) THEN _cleanup_old_data(s, t) ELSE s, c, t, p)

block_ip(s, c, t, ip, duration) ==
    LET d == IF duration = <<>> THEN c.block_duration ELSE duration[1]
    IN  _log_security_event([s EXCEPT !.blocked_ips = Put(@, ip, t + d)],
                            c, t, "manual_block", ip, 0, d)

unblock_ip(s, c, t, ip) ==
    IF ip \in DOMAIN s.blocked_ips
    THEN _log_security_event([s EXCEPT !.blocked_ips = Del(@, ip)],
                             c, t, "manual_unblock", ip, 0, "")
    ELSE s

\* get_recent_events: the slice self._security_events[-limit:].  A slice start
\* below zero counts from the end and stops at the first element; a start of
\* zero or more (and -0 is 0) counts from the first element.
get_recent_events(s, limit) ==
    LET n == Len(s.security_events)
        start == IF -limit < 0
                 THEN IF n - limit < 0 THEN 0 ELSE n - limit
                 ELSE Min(-limit, n)
    IN  SubSeq(s.security_events, start + 1, n)

----------------------------------------------------------------------------
(* protocol.py: a datagram is the GamepadState it decodes to and its length  *)
(* in bytes.                                                                 *)

PACKET_SIZE == 27
PROTOCOL_VERSION == 2
MAX_PACKET_SIZE == 1024
MIN_PACKET_SIZE == PACKET_SIZE

validate_packet_size_no_maximum(data) == MIN_PACKET_SIZE <= data.size

validate_packet_size(data) == MIN_PACKET_SIZE <= data.size /\ data.size <= MAX_PACKET_SIZE

validate_gamepad_state(state) ==
    /\ ~(state.version # PROTOCOL_VERSION)
    /\ ~(state.buttons > 65535)
    /\ (0 <= state.lt /\ state.lt <= 255 /\ 0 <= state.rt /\ state.rt <= 255)
    /\ \A val \in {state.lx, state.ly, state.rx, state.ry} :
          -32768 <= val /\ val <= 32767
    /\ ~(state.sequence > 65535)

\* unpack(data): <<>> when it raises ValueError, <<state>> otherwise.
unpack(data) ==
    IF ~validate_packet_size(data) THEN <<>>
    ELSE IF data.size < PACKET_SIZE THEN <<>>
    ELSE IF ~validate_gamepad_state(data.state) THEN <<>>
    ELSE <<data.state>>

\* The client identifier and the timestamp are wider than the model checker's
\* integers: such a Python int is its sign and its base-65536 digits, least
\* significant first, without leading zero digits.
Limb == 65536

RECURSIVE Strip(_)
Strip(digits) ==
    IF digits # <<>> /\ digits[Len(digits)] = 0
    THEN Strip(SubSeq(digits, 1, Len(digits) - 1))
    ELSE digits

Long(neg, digits) == [neg |-> neg, digits |-> digits]

\* The Python int n, for 0 <= n < 2^31, and back.
LongOf(n) == Long(FALSE, Strip(<<n % Limb, n \div Limb>>))

ToInt(v) ==
    IF v.digits = <<>> THEN 0
    ELSE IF Len(v.digits) = 1 THEN v.digits[1]
    ELSE v.digits[1] + Limb * v.digits[2]

\* struct, little-endian and unpadded ('<'): the bytes of one field, and the
\* field read back from buffer b at offset k (from 1).
pack_B(v) == <<v>>

pack_H(v) == <<v % 256, v \div 256>>

pack_h(v) == pack_H((v + Limb) % Limb)

RECURSIVE pack_digits(_, _, _)
pack_digits(digits, i, n) ==
    IF i > n THEN <<>>
    ELSE pack_H(IF i <= Len(digits) THEN digits[i] ELSE 0)
         \o pack_digits(digits, i + 1, n)

pack_I(v) == pack_digits(v.digits, 1, 2)

pack_Q(v) == pack_digits(v.digits, 1, 4)

unpack_B(b, k) == b[k]

unpack_H(b, k) == b[k] + 256 * b[k + 1]

unpack_h_unsigned(b, k) == unpack_H(b, k)

unpack_h(b, k) ==
    IF unpack_H(b, k) >= 32768 THEN unpack_H(b, k) - Limb ELSE unpack_H(b, k)

unpack_I(b, k) == Long(FALSE, Strip(<<unpack_H(b, k), unpack_H(b, k + 2)>>))

unpack_Q(b, k) ==
    Long(FALSE, Strip(<<unpack_H(b, k), unpack_H(b, k + 2),
                        unpack_H(b, k + 4), unpack_H(b, k + 6)>>))

\* The values struct.pack takes for each format; any other raises struct.error.
fits_B(v) == 0 <= v /\ v <= 255

fits_H(v) == 0 <= v /\ v <= 65535

fits_h(v) == -32768 <= v /\ v <= 32767

fits_I(v) == ~v.neg /\ Len(v.digits) <= 2

fits_Q(v) == ~v.neg /\ Len(v.digits) <= 4

\* pack(state): <<>> when struct.pack raises, <<bytes>> otherwise.
pack(state) ==
    IF /\ fits_B(state.version) /\ fits_I(state.client_id)
       /\ fits_H(state.sequence) /\ fits_H(state.buttons)
       /\ fits_B(state.lt) /\ fits_B(state.rt)
       /\ fits_h(state.lx) /\ fits_h(state.ly)
       /\ fits_h(state.rx) /\ fits_h(state.ry)
       /\ fits_Q(state.timestamp)
    THEN <<pack_B(state.version) \o pack_I(state.client_id)
           \o pack_H(state.sequence) \o pack_H(state.buttons)
           \o pack_B(state.lt) \o pack_B(state.rt)
           \o pack_h(state.lx) \o pack_h(state.ly)
           \o pack_h(state.rx) \o pack_h(state.ry)
           \o pack_Q(state.timestamp)>>
    ELSE <<>>

\* GamepadState(*struct.unpack(PACKET_FMT, b)) for a buffer b of PACKET_SIZE bytes.
struct_unpack(b) ==
    [version |-> unpack_B(b, 1), client_id |-> unpack_I(b, 2),
     sequence |-> unpack_H(b, 6), buttons |-> unpack_H(b, 8),
     lt |-> unpack_B(b, 10), rt |-> unpack_B(b, 11),
     lx |-> unpack_h(b, 12), ly |-> unpack_h(b, 14),
     rx |-> unpack_h(b, 16), ry |-> unpack_h(b, 18),
     timestamp |-> unpack_Q(b, 20)]

\* A buffer as unpack sees it: its length and, when it is long enough for
\* struct.unpack, the fields of its first PACKET_SIZE bytes.
decode(buf) ==
    [size |-> Len(buf),
     state |-> IF Len(buf) >= PACKET_SIZE
               THEN struct_unpack(SubSeq(buf, 1, PACKET_SIZE))
               ELSE <<>>]

\* The same for the host, whose client identifiers and timestamps are small.
received(buf) ==
    [size |-> Len(buf),
     state |-> IF Len(buf) >= PACKET_SIZE
               THEN LET state == struct_unpack(SubSeq(buf, 1, PACKET_SIZE))
                    IN  [state EXCEPT !.client_id = ToInt(@),
                                      !.timestamp = ToInt(@)]
               ELSE <<>>]

\* What a sender of the host's model puts on the wire.
sent(state) ==
    pack([state EXCEPT !.client_id = LongOf(@), !.timestamp = LongOf(@)])[1]

----------------------------------------------------------------------------
(* host.py: the virtual gamepad (vgamepad.VX360Gamepad as the host drives    *)
(* it) and GamepadHost.  None is <<>>, a value v that may be None is <<v>>.  *)

MAX_CONTROLLERS == 4
LivenessWindow == 10
LatencyWindow == 50

None == <<>>

\* The XUSB report: the buttons held, triggers and sticks.
Neutral == [buttons |-> {}, lt |-> 0, rt |-> 0, lx |-> 0, ly |-> 0, rx |-> 0, ry |-> 0]

\* A gamepad holds the report being built and the report last sent by update().
VX360Gamepad == [report |-> Neutral, sent |-> Neutral]

gp_reset(g) == [g EXCEPT !.report = Neutral]

gp_update(g) == [g EXCEPT !.sent = g.report]

\* The wire bitmasks _get_button_mapping maps to XUSB buttons.
ButtonMapping ==
    {1, 2, 4, 8, 16, 32, 64, 128, 256, 512, 4096, 8192, 16384, 32768}

\* bool(mask & bitmask) for a one-bit bitmask
HasBit(mask, bitmask) == (mask \div bitmask) % 2 = 1

Clamp(lo, hi, v) == IF v < lo THEN lo ELSE IF v > hi THEN hi ELSE v

\* _apply_gamepad on gamepad g (not None).  sink tells how the driver calls
\* go: "ok", "raise_first" (the first call raises) or "raise_update" (update()
\* raises after the report was built).  raised: an exception leaves the method.
_apply_gamepad(g, buttons, last_buttons, state, sink) ==
    LET press == {b \in ButtonMapping : HasBit(buttons, b) /\ ~HasBit(last_buttons, b)}
        release == {b \in ButtonMapping : ~HasBit(buttons, b) /\ HasBit(last_buttons, b)}
        built == [g EXCEPT !.report =
                     [buttons |-> (g.report.buttons \cup press) \ release,
                      lt |-> Clamp(0, 255, state.lt),
                      rt |-> Clamp(0, 255, state.rt),
                      lx |-> Clamp(-32768, 32767, state.lx),
                      ly |-> Clamp(-32768, 32767, state.ly),
                      rx |-> Clamp(-32768, 32767, state.rx),
                      ry |-> Clamp(-32768, 32767, state.ry)]]
    IN  CASE sink = "raise_first" ->
                [gamepad |-> g, last_buttons |-> last_buttons, raised |-> TRUE]
          [] sink = "raise_update" ->
                [gamepad |-> built, last_buttons |-> last_buttons, raised |-> TRUE]
          [] OTHER ->
                [gamepad |-> gp_update(built), last_buttons |-> buttons, raised |-> FALSE]

_calc_latency(t, state) == (perf_counter(t) - state.timestamp) * 1000

Window(samples) == IF Len(samples) > LatencyWindow THEN Tail(samples) ELSE samples

GamepadHost(multi_gamepad, vgame_available) ==
    [multi_gamepad |-> multi_gamepad, VGAME_AVAILABLE |-> vgame_available,
     packet_count |-> 0, last_telemetry_time |-> 0,
     owner |-> None, last_seq_single |-> None, last_buttons_single |-> 0,
     last_time_single |-> 0, vg_single |-> None, latency_samples_single |-> <<>>,
     rate_start_time |-> None, rate_packet_count |-> 0,
     clients |-> EmptyMap, client_slot_order |-> <<>>]

\* The entry _get_or_create_gamepad makes for a new client.
ClientInfo(gp, t, name, color, slot) ==
    [gamepad |-> gp, last_seq |-> None, last_buttons |-> 0, last_time |-> t,
     name |-> name, color |-> color, slot |-> slot, latency_samples |-> <<>>,
     last_telemetry_time |-> 0, rate_start_time |-> perf_counter(t),
     rate_packet_count |-> 0, addr |-> None]

_get_or_create_gamepad_no_limit(h, t, client_id, created, name, color) ==
    IF client_id \in DOMAIN h.clients THEN h
    ELSE IF ~h.VGAME_AVAILABLE
    THEN [h EXCEPT
            !.clients = Put(@, client_id,
                            ClientInfo(None, t, name, color,
                                       Cardinality(DOMAIN h.clients) + 1)),
            !.client_slot_order = Append(@, client_id)]
    ELSE IF ~created THEN h
    ELSE [h EXCEPT
            !.clients = Put(@, client_id,
                            ClientInfo(<<VX360Gamepad>>, t, name, color,
                                       Cardinality(DOMAIN h.clients) + 1)),
            !.client_slot_order = Append(@, client_id)]

\* created tells whether vg.VX360Gamepad() succeeds when it is called.
_get_or_create_gamepad(h, t, client_id, created, name, color) ==
    IF client_id \in DOMAIN h.clients THEN h
    ELSE IF Cardinality(DOMAIN h.clients) >= MAX_CONTROLLERS THEN h
    ELSE IF ~h.VGAME_AVAILABLE
    THEN [h EXCEPT
            !.clients = Put(@, client_id,
                            ClientInfo(None, t, name, color,
                                       Cardinality(DOMAIN h.clients) + 1)),
            !.client_slot_order = Append(@, client_id)]
    ELSE IF ~created THEN h
    ELSE [h EXCEPT
            !.clients = Put(@, client_id,
                            ClientInfo(<<VX360Gamepad>>, t, name, color,
                                       Cardinality(DOMAIN h.clients) + 1)),
            !.client_slot_order = Append(@, client_id)]

\* In the handlers below e is what the environment decides during the call:
\* e.created (vg.VX360Gamepad() succeeds), e.name and e.color (the random
\* choices) and e.sink (how the driver calls of _apply_gamepad go).

_update_telemetry_multi(h, t, state, client_id) ==
    IF client_id \notin DOMAIN h.clients THEN h
    ELSE LET info == h.clients[client_id]
             current_time == perf_counter(t)
             count == info.rate_packet_count + 1
             elapsed == current_time - info.rate_start_time
         IN  [h EXCEPT !.clients[client_id] =
                 [info EXCEPT
                    !.latency_samples = Window(Append(@, _calc_latency(t, state))),
                    !.rate_start_time = IF elapsed >= 1 THEN current_time ELSE @,
                    !.rate_packet_count = IF elapsed >= 1 THEN 0 ELSE count,
                    !.last_telemetry_time =
                        IF current_time - @ >= 1 THEN current_time ELSE @]]

FirstSlot(h, client_id) ==
    IF h.client_slot_order = <<>> THEN client_id ELSE h.client_slot_order[1]

_apply_state_multi_first_slot(h, state, client_id, sink) ==
    IF client_id \notin DOMAIN h.clients THEN h
    ELSE LET target == FirstSlot(h, client_id)
             info == h.clients[target]
         IN  IF info.gamepad = None THEN h
             ELSE LET r == _apply_gamepad(info.gamepad[1], state.buttons,
                                          info.last_buttons, state, sink)
                  IN  [h EXCEPT !.clients[target].gamepad = <<r.gamepad>>,
                                !.clients[target].last_buttons = r.last_buttons]

_apply_state_multi(h, state, client_id, sink) ==
    IF client_id \notin DOMAIN h.clients THEN h
    ELSE LET info == h.clients[client_id]
         IN  IF info.gamepad = None THEN h
             ELSE LET r == _apply_gamepad(info.gamepad[1], state.buttons,
                                          info.last_buttons, state, sink)
                  IN  [h EXCEPT !.clients[client_id].gamepad = <<r.gamepad>>,
                                !.clients[client_id].last_buttons = r.last_buttons]

SameSequence_or_older(last_seq, sequence) ==
    last_seq # None /\ (sequence - last_seq[1]) % 65536 \in {0} \cup 32768..65535

SameSequence(last_seq, sequence) ==
    last_seq # None /\ (sequence - last_seq[1]) % 65536 = 0

\* The session is looked up by the source address, and by the identifier only
\* when no session has that address.
_handle_multi_by_address(h, t, state, addr, e) ==
    LET here == {k \in DOMAIN h.clients : h.clients[k].addr = <<addr>>}
        cid == IF here # {} THEN CHOOSE k \in here : TRUE ELSE state.client_id
        h1 == IF cid \notin DOMAIN h.clients
              THEN _get_or_create_gamepad(h, t, cid, e.created, e.name, e.color)
              ELSE h
    IN  IF cid \notin DOMAIN h1.clients THEN h1
        ELSE LET h2 == [h1 EXCEPT !.clients[cid].addr = <<addr>>]
             IN  IF SameSequence(h2.clients[cid].last_seq, state.sequence) THEN h2
                 ELSE _apply_state_multi(
                          _update_telemetry_multi(
                              [h2 EXCEPT !.clients[cid].last_seq = <<state.sequence>>,
                                         !.clients[cid].last_time = t],
                              t, state, cid),
                          state, cid, e.sink)

_handle_multi_duplicate_refreshes(h, t, state, addr, e) ==
    LET cid == state.client_id
        h1 == IF cid \notin DOMAIN h.clients
              THEN _get_or_create_gamepad(h, t, cid, e.created, e.name, e.color)
              ELSE h
    IN  IF cid \notin DOMAIN h1.clients THEN h1
        ELSE LET h2 == [h1 EXCEPT !.clients[cid].addr = <<addr>>,
                                  !.clients[cid].last_time = t]
             IN  IF SameSequence(h2.clients[cid].last_seq, state.sequence) THEN h2
                 ELSE _apply_state_multi(
                          _update_telemetry_multi(
                              [h2 EXCEPT !.clients[cid].last_seq = <<state.sequence>>],
                              t, state, cid),
                          state, cid, e.sink)

_handle_multi(h, t, state, addr, e) ==
    LET cid == state.client_id
        h1 == IF cid \notin DOMAIN h.clients
              THEN _get_or_create_gamepad(h, t, cid, e.created, e.name, e.color)
              ELSE h
    IN  IF cid \notin DOMAIN h1.clients THEN h1
        ELSE LET h2 == [h1 EXCEPT !.clients[cid].addr = <<addr>>]
             IN  IF SameSequence(h2.clients[cid].last_seq, state.sequence) THEN h2
                 ELSE _apply_state_multi(
                          _update_telemetry_multi(
                              [h2 EXCEPT !.clients[cid].last_seq = <<state.sequence>>,
                                         !.clients[cid].last_time = t],
                              t, state, cid),
                          state, cid, e.sink)

_update_telemetry_single(h, t, state) ==
    LET current_time == perf_counter(t)
        start == IF h.rate_start_time = None THEN current_time ELSE h.rate_start_time[1]
        count == (IF h.rate_start_time = None THEN 0 ELSE h.rate_packet_count) + 1
        elapsed == current_time - start
    IN  [h EXCEPT
            !.latency_samples_single = Window(Append(@, _calc_latency(t, state))),
            !.rate_start_time = IF elapsed >= 1 THEN <<current_time>> ELSE <<start>>,
            !.rate_packet_count = IF elapsed >= 1 THEN 0 ELSE count,
            !.last_telemetry_time = IF current_time - @ >= 1 THEN current_time ELSE @]

_apply_state_single(h, state, sink) ==
    IF h.vg_single = None THEN h
    ELSE LET r == _apply_gamepad(h.vg_single[1], state.buttons,
                                 h.last_buttons_single, state, sink)
         IN  [h EXCEPT !.vg_single = <<r.gamepad>>,
                       !.last_buttons_single = r.last_buttons]

_handle_single_any_client(h, t, state, addr, e) ==
    LET h1 == IF h.owner = None THEN [h EXCEPT !.owner = <<state.client_id>>] ELSE h
    IN  IF SameSequence(h1.last_seq_single, state.sequence) THEN h1
        ELSE _apply_state_single(
                 _update_telemetry_single(
                     [h1 EXCEPT !.last_seq_single = <<state.sequence>>,
                                !.last_time_single = t],
                     t, state),
                 state, e.sink)

_handle_single(h, t, state, addr, e) ==
    LET h1 == IF h.owner = None THEN [h EXCEPT !.owner = <<state.client_id>>] ELSE h
    IN  IF <<state.client_id>> # h1.owner THEN h1
        ELSE IF SameSequence(h1.last_seq_single, state.sequence) THEN h1
        ELSE _apply_state_single(
                 _update_telemetry_single(
                     [h1 EXCEPT !.last_seq_single = <<state.sequence>>,
                                !.last_time_single = t],
                     t, state),
                 state, e.sink)

\* _cleanup_stale_clients, the gamepads of the stale sessions as reset() and
\* update() leave them before the sessions are deleted.
released(h, t) ==
    LET stale == {cid \in DOMAIN h.clients :
                     /\ t - h.clients[cid].last_time > LivenessWindow
                     /\ h.clients[cid].gamepad # None}
    IN  [cid \in stale |-> gp_update(gp_reset(h.clients[cid].gamepad[1]))]

\* The stale sessions are reset and deleted; the order of the others is kept.
_cleanup_stale_clients(h, t) ==
    LET stale == {cid \in DOMAIN h.clients : t - h.clients[cid].last_time > LivenessWindow}
    IN  [h EXCEPT !.clients = [cid \in DOMAIN @ \ stale |-> @[cid]],
                  !.client_slot_order = SelectSeq(@, LAMBDA cid : cid \notin stale)]

\* What telemetry_cb is told when a client joins or leaves.
Notification(type, cid, name, color, slot) ==
    [type |-> type, client_id |-> cid, name |-> name, color |-> color, slot |-> slot]

joined_on_refusal(h, client_id, created, name, color) ==
    IF client_id \in DOMAIN h.clients THEN <<>>
    ELSE <<Notification("PLAYER_JOIN", client_id, name, color,
                        Cardinality(DOMAIN h.clients) + 1)>>

\* _get_or_create_gamepad, the calls of telemetry_cb it makes.
joined(h, client_id, created, name, color) ==
    IF client_id \in DOMAIN h.clients THEN <<>>
    ELSE IF Cardinality(DOMAIN h.clients) >= MAX_CONTROLLERS THEN <<>>
    ELSE IF ~h.VGAME_AVAILABLE \/ created
    THEN <<Notification("PLAYER_JOIN", client_id, name, color,
                        Cardinality(DOMAIN h.clients) + 1)>>
    ELSE <<>>

\* _cleanup_stale_clients, the calls of telemetry_cb it makes: one for each
\* stale session, in the order of the dictionary (the order of joining).
left(h, t) ==
    LET stale == SelectSeq(h.client_slot_order,
                           LAMBDA cid : t - h.clients[cid].last_time > LivenessWindow)
    IN  [k \in 1..Len(stale) |->
            LET info == h.clients[stale[k]]
            IN  Notification("PLAYER_LEAVE", stale[k], info.name, info.color, info.slot)]

\* _run, the join and leave notifications of one loop iteration on a datagram
\* and of one on a receive timeout.
notified_datagram(h, s, c, t, data, addr, e) ==
    LET u == unpack(data)
    IN  IF u = <<>> THEN <<>>
        ELSE IF u[1].version # PROTOCOL_VERSION THEN <<>>
        ELSE LET cid == u[1].client_id
                 r == check_packet(s, c, t, [client_id |-> cid, ip |-> addr[1],
                                             timestamp |-> u[1].timestamp])
             IN  IF ~r.allowed \/ ~h.multi_gamepad \/ cid \in DOMAIN h.clients
                 THEN <<>>
                 ELSE joined(h, cid, e.created, e.name, e.color)

notified_timeout(h, t) == IF h.multi_gamepad THEN left(h, t) ELSE <<>>

\* Python truth value of self._owner: None and 0 are false.
Truthy(owner) == owner # None /\ owner[1] # 0

\* _run, the socket.timeout branch of one loop iteration (times in seconds:
\* elapsed > 0.5 is 2 * elapsed > 1).
recv_timeout(h, t) ==
    IF h.multi_gamepad
    THEN _cleanup_stale_clients(h, t)
    ELSE IF Truthy(h.owner) /\ 2 * (t - h.last_time_single) > 1
         THEN [h EXCEPT !.owner = None, !.last_seq_single = None]
         ELSE h

Outcome(h, s, reason) == [host |-> h, sec |-> s, reason |-> reason]

\* _run, one loop iteration that receives datagram data from addr = <<ip, port>>.
recv_datagram(h, s, c, t, data, addr, e) ==
    LET u == unpack(data)
    IN  IF u = <<>> THEN Outcome(h, s, "bad packet")
        ELSE IF u[1].version # PROTOCOL_VERSION THEN Outcome(h, s, "bad version")
        ELSE LET state == u[1]
                 r == check_packet(s, c, t, [client_id |-> state.client_id,
                                             ip |-> addr[1],
                                             timestamp |-> state.timestamp])
                 h1 == [h EXCEPT !.packet_count = @ + 1]
             IN  IF ~r.allowed THEN Outcome(h, r.s, r.reason)
                 ELSE Outcome(IF h.multi_gamepad
                              THEN _handle_multi(h1, t, state, addr, e)
                              ELSE _handle_single(h1, t, state, addr, e),
                              r.s, r.reason)

\* The host as telemetry_cb leaves it when it raises while the admitted packet
\* state is handled (the exception leaves the handler at the first call), or
\* None when the handler does not call telemetry_cb.  h is the host with the
\* packet counted.
telemetry_raises(h, t, state, addr, e) ==
    LET cid == state.client_id
    IN  IF h.multi_gamepad
        THEN IF cid \notin DOMAIN h.clients
             THEN LET h1 == _get_or_create_gamepad(h, t, cid, e.created, e.name, e.color)
                  IN  IF cid \in DOMAIN h1.clients THEN <<h1>> ELSE None
             ELSE LET info == h.clients[cid]
                      h2 == [h EXCEPT !.clients[cid].addr = <<addr>>,
                                      !.clients[cid].last_seq = <<state.sequence>>,
                                      !.clients[cid].last_time = t]
                  IN  IF SameSequence(info.last_seq, state.sequence) THEN None
                      ELSE IF perf_counter(t) - info.last_telemetry_time >= 1
                      THEN <<[_update_telemetry_multi(h2, t, state, cid) EXCEPT
                                 !.clients[cid].last_telemetry_time =
                                     info.last_telemetry_time]>>
                      ELSE None
        ELSE LET h1 == IF h.owner = None THEN [h EXCEPT !.owner = <<cid>>] ELSE h
                 h2 == [h1 EXCEPT !.last_seq_single = <<state.sequence>>,
                                  !.last_time_single = t]
             IN  IF <<cid>> # h1.owner THEN None
                 ELSE IF SameSequence(h1.last_seq_single, state.sequence) THEN None
                 ELSE IF perf_counter(t) - h.last_telemetry_time >= 1
                 THEN <<[_update_telemetry_single(h2, t, state) EXCEPT
                            !.last_telemetry_time = h.last_telemetry_time]>>
                 ELSE None

\* _run, one loop iteration on a datagram when telemetry_cb may raise
\* (cb = "raise"): raised tells whether an exception leaves the loop.
run_iteration(h, s, c, t, data, addr, e, cb) ==
    LET r == recv_datagram(h, s, c, t, data, addr, e)
        x == IF r.reason = "OK" /\ cb = "raise"
             THEN telemetry_raises([h EXCEPT !.packet_count = @ + 1], t,
                                   unpack(data)[1], addr, e)
             ELSE None
    IN  IF x # None
        THEN [host |-> x[1], sec |-> r.sec, reason |-> r.reason, raised |-> TRUE]
        ELSE [host |-> r.host, sec |-> r.sec, reason |-> r.reason, raised |-> FALSE]

\* The receive threads that have not left _run.
Alive(r) == {i \in 1..Len(r.threads) : r.threads[i].pc \notin {"done", "died"}}

\* A thread about to enter _run.
Thread == [pc |-> "setup", attempt |-> 0]

start_unguarded(r) ==
    [r EXCEPT !.stop = FALSE, !.threads = Append(@, Thread)]

\* GamepadHost.start; self._thread is the thread started last.
start(r) ==
    IF r.threads # <<>> /\ Len(r.threads) \in Alive(r) THEN r
    ELSE [r EXCEPT !.stop = FALSE, !.threads = Append(@, Thread)]

\* GamepadHost.stop; join(timeout=1.0) returns when the thread has ended or
\* after a second, whichever is first.
stop(r) ==
    [r EXCEPT !.stop = TRUE, !.sock = IF @ = "none" THEN "none" ELSE "closed"]

loop_test_forever(stop_set) == "recv"

\* _run, the test at the head of the loop: where the thread goes next.
loop_test(stop_set) == IF stop_set THEN "done" ELSE "recv"

\* _init_single_gamepad, the attempts allowed.
max_retries == 3

\* _init_single_gamepad: the gamepad when a creation attempt succeeds, None
\* when the driver is missing or every attempt fails.
_init_single_gamepad(h, created) ==
    IF ~h.VGAME_AVAILABLE THEN h
    ELSE IF created THEN [h EXCEPT !.vg_single = <<VX360Gamepad>>]
    ELSE h

----------------------------------------------------------------------------
(* Inputs *)

\* Clock advances: a second (a block expires, a bucket refills) and a silence
\* longer than the inactivity window (the housekeeping sweep is due and evicts).
TickSteps == {1, InactiveWindow + 1}

\* Packet ages (receive time minus origin timestamp) around the two limits.
Ages(c) == {-(c.max_timestamp_future + 1), -c.max_timestamp_future, 0,
            c.max_timestamp_age, c.max_timestamp_age + 1}

\* The ages of the packets the senders send: too far ahead, fresh, too old.
SentAges(c) == {-(c.max_timestamp_future + 1), 0, c.max_timestamp_age + 1}

Packets(c, t, ages) ==
    [client_id : ClientIds, ip : Ips,
     timestamp : {perf_counter(t) - a : a \in ages}]

\* Clock advances of a long run: most of the inactivity window, then just
\* over the sweep interval.
SweepTickSteps == {250, CleanupInterval + 1}

\* The small configuration with the block duration of the defaults, longer
\* than the sweep interval.
SweepConfig == [SecurityConfig(FALSE) EXCEPT !.block_duration = 300]

\* The configuration that keeps the event log (the default of
\* log_security_events).
EventConfig == [SecurityConfig(FALSE) EXCEPT !.log_security_events = TRUE]

\* Manager s after n calls block_ip(2, 2) made at time 0 (the calls are made
\* one after the other; half of them, then the other half).
RECURSIVE Blocks(_, _)
Blocks(s, n) ==
    IF n = 0 THEN s
    ELSE IF n = 1 THEN block_ip(s, EventConfig, 0, 2, <<2>>)
    ELSE CHOOSE r \in {Blocks(half, n - n \div 2) : half \in {Blocks(s, n \div 2)}} : TRUE

\* The manager after n such calls made as soon as it was constructed.
Logged(n) == Blocks(SecurityManager(0), n)

\* The packets of the event-log runs: one client at one address, fresh or
\* too old.
EventPackets(t) ==
    [client_id : {0}, ip : {1},
     timestamp : {perf_counter(t), perf_counter(t) - (EventConfig.max_timestamp_age + 1)}]

\* The limits get_recent_events is called with.
Limits == {0, 1, 2, EventLogCap, EventLogCap + 1}

\* The small configuration with a burst larger than what a second refills.
RateConfig ==
    [SecurityConfig(FALSE) EXCEPT !.rate_limit_burst = 2, !.ip_rate_limit_max = 1]

\* Clock advances in the runs that count packets: a second, and the longest
\* silence after which the sweep is not yet due.
RateTickSteps == {1, CleanupInterval}

\* The packets counted: fresh ones of every client from every address.
RatePackets(t) == Packets(RateConfig, t, {0})

\* block_ip's optional duration: <<>> is None, <<d>> is d seconds.
Durations == {<<>>, <<1>>}

NoBucket == [bucket |-> TokenBucket(1, 1, 0), calls |-> <<>>]

NoHost == GamepadHost(FALSE, FALSE)

\* Clock advance of the host: a silence longer than the liveness window (and
\* than the block duration and the bucket refill time).
HostTickSteps == {LivenessWindow + 1}

Sequences == 1..MaxSeq

\* What the sender's controller shows: at rest, or A and d-pad up held with
\* the left trigger and the left stick fully deflected.
Poses ==
    {[buttons |-> 0, lt |-> 0, rt |-> 0, lx |-> 0, ly |-> 0, rx |-> 0, ry |-> 0],
     [buttons |-> 4097, lt |-> 255, rt |-> 0, lx |-> 32767, ly |-> -32768,
      rx |-> 0, ry |-> 0]}

GamepadState(version, client_id, sequence, pose, timestamp) ==
    [version |-> version, client_id |-> client_id, sequence |-> sequence,
     buttons |-> pose.buttons, lt |-> pose.lt, rt |-> pose.rt, lx |-> pose.lx,
     ly |-> pose.ly, rx |-> pose.rx, ry |-> pose.ry, timestamp |-> timestamp]

Datagram(cid, seq, pose, timestamp) ==
    [size |-> PACKET_SIZE,
     state |-> GamepadState(PROTOCOL_VERSION, cid, seq, pose, timestamp)]

\* Well-formed datagrams of every client with the given ages, a truncated one
\* and one of another protocol version.
Datagrams(c, t, ages) ==
    LET good == {Datagram(cid, seq, pose, perf_counter(t) - a) :
                     cid \in ClientIds, seq \in Sequences, pose \in Poses, a \in ages}
        one == CHOOSE d \in good : TRUE
    IN  good \cup {[one EXCEPT !.size = PACKET_SIZE - 1],
                   [one EXCEPT !.state.version = PROTOCOL_VERSION - 1]}

\* What the senders send: fresh datagrams with every sequence number and pose,
\* and from every client a datagram that is too old and one too far ahead.
SentDatagrams(c, t) ==
    Datagrams(c, t, {0})
    \cup {Datagram(cid, 1, CHOOSE pose \in Poses : pose.buttons = 0,
                   perf_counter(t) - a) :
             cid \in ClientIds, a \in SentAges(c) \ {0}}

\* Sequence numbers at both ends of the 16-bit counter.
SessionSequences == {0, 1, MaxSeq, 65535}

\* Fresh datagrams of every client with these sequence numbers and every pose.
SessionDatagrams(t) ==
    {Datagram(cid, seq, pose, perf_counter(t)) :
        cid \in ClientIds, seq \in SessionSequences, pose \in Poses}

\* Clock advance between two packets of a session.
SessionTickSteps == {1}

\* One client more than there are slots.
SlotClientIds == 0..MAX_CONTROLLERS

\* Clock advance in multi-slot runs: more than half the liveness window, so
\* that of two sessions begun a step apart one goes stale before the other.
SlotTickSteps == {LivenessWindow \div 2 + 1}

\* The clients that send in multi-slot runs: a client the admission
\* controller has seen sends one datagram for each clock reading, and the
\* others turn up in the order of their identifiers.
Senders(s, t) ==
    {cid \in SlotClientIds :
        IF cid \in DOMAIN s.clients
        THEN s.clients[cid].last_seen < t
        ELSE cid = 0 \/ cid - 1 \in DOMAIN s.clients}

\* What they send: a fresh datagram with the controller at rest, its sequence
\* number going up with the clock.
SlotDatagrams(s, t, k) ==
    {Datagram(cid, k + 1, CHOOSE pose \in Poses : pose.buttons = 0, perf_counter(t)) :
        cid \in Senders(s, t)}

\* Datagrams cut short: all but the last byte, and nothing at all.
ShortDatagrams(t) ==
    {[Datagram(0, 1, CHOOSE pose \in Poses : pose.buttons = 0, perf_counter(t))
         EXCEPT !.size = size] : size \in {PACKET_SIZE - 1, 0}}

Port == 50000

Addrs == {<<ip, Port>> : ip \in Ips}

\* The address each client sends from.
HomeAddr(cid) == <<cid + 1, Port>>

\* The one address all clients of a shared network send from.
SharedAddr == <<1, Port>>

\* The clients that send from the shared address: as in Senders, and a client
\* the admission controller turned away tries again at the next clock reading.
SharedSenders(s, t) ==
    {cid \in Senders(s, t) :
        cid \in DOMAIN s.client_buckets /\ cid \notin DOMAIN s.clients
            => s.client_buckets[cid].last_update < t}

SharedDatagrams(s, t, k) ==
    {Datagram(cid, k + 1, CHOOSE pose \in Poses : pose.buttons = 0, perf_counter(t)) :
        cid \in SharedSenders(s, t)}

Names == {"Swift Falcon"}

Colors == {"#e74c3c"}

SinkOutcomes == {"ok", "raise_first", "raise_update"}

Envs == [created : BOOLEAN, name : Names, color : Colors, sink : SinkOutcomes]

\* What the driver does in the runs: all goes well, the gamepad cannot be
\* created, or update() raises.
MetEnvs == {e \in Envs : \/ e.created /\ e.sink = "ok"
                         \/ ~e.created /\ e.sink = "ok"
                         \/ e.created /\ e.sink = "raise_update"}

\* The largest value of each wide field, and the values just outside.
MaxI == Long(FALSE, <<65535, 65535>>)

MaxQ == Long(FALSE, <<65535, 65535, 65535, 65535>>)

OverI == Long(FALSE, <<0, 0, 1>>)

OverQ == Long(FALSE, <<0, 0, 0, 0, 1>>)

MinusOne == Long(TRUE, <<1>>)

\* The states a sender may build: every combination of the smallest and the
\* largest value of each field, and a state with one field just outside its
\* width or with another version.
BaseState ==
    [version |-> PROTOCOL_VERSION, client_id |-> LongOf(1), sequence |-> 258,
     buttons |-> 4097, lt |-> 128, rt |-> 1, lx |-> 1, ly |-> -1, rx |-> 0,
     ry |-> -2, timestamp |-> LongOf(1000000000)]

CornerStates ==
    [version : {PROTOCOL_VERSION}, client_id : {LongOf(0), MaxI},
     sequence : {0, 65535}, buttons : {0, 65535}, lt : {0, 255}, rt : {0, 255},
     lx : {-32768, 32767}, ly : {-32768, 32767}, rx : {-32768, 32767},
     ry : {-32768, 32767}, timestamp : {LongOf(0), MaxQ}]

OutsideStates ==
    {[BaseState EXCEPT !.version = v] : v \in {0, 1, 3, 255, 256}}
    \cup {[BaseState EXCEPT !.client_id = v] : v \in {MinusOne, OverI}}
    \cup {[BaseState EXCEPT !.sequence = v] : v \in {-1, 65536}}
    \cup {[BaseState EXCEPT !.buttons = v] : v \in {-1, 65536}}
    \cup {[BaseState EXCEPT !.lt = v] : v \in {-1, 256}}
    \cup {[BaseState EXCEPT !.rt = v] : v \in {-1, 256}}
    \cup {[BaseState EXCEPT !.lx = v] : v \in {-32769, 32768}}
    \cup {[BaseState EXCEPT !.ly = v] : v \in {-32769, 32768}}
    \cup {[BaseState EXCEPT !.rx = v] : v \in {-32769, 32768}}
    \cup {[BaseState EXCEPT !.ry = v] : v \in {-32769, 32768}}
    \cup {[BaseState EXCEPT !.timestamp = v] : v \in {MinusOne, OverQ}}

WireStates == {BaseState} \cup CornerStates \cup OutsideStates

Zeros(n) == [i \in 1..n |-> 0]

\* recvfrom(2048): the longest buffer the loop is handed.
RecvBufferSize == 2048

\* What may arrive instead of the buffer sent: the buffer cut short, padded to
\* the largest accepted size, beyond it and to the largest size received, or
\* with another version byte.
Mangled(buf) ==
    {SubSeq(buf, 1, Len(buf) - 1), <<>>,
     buf \o Zeros(MAX_PACKET_SIZE - Len(buf)),
     buf \o Zeros(MAX_PACKET_SIZE + 1 - Len(buf)),
     buf \o Zeros(RecvBufferSize - Len(buf)),
     [buf EXCEPT ![1] = PROTOCOL_VERSION + 1]}

NoWire == [state |-> BaseState, valid |-> <<>>, data |-> <<>>, packed |-> FALSE,
           mangled |-> FALSE, unpacked |-> FALSE, out |-> <<>>]

\* A host never started: no thread, the stop event clear, no socket.
NoRun == [threads |-> <<>>, stop |-> FALSE, sock |-> "none", starts |-> 0, stops |-> 0]

\* No call in progress on the SecurityManager.
NoCalls == [recv |-> [pc |-> "idle"], oper |-> [pc |-> "idle"], failed |-> {}, calls |-> 0]

\* The driver works.
DriverWorks == CHOOSE e \in Envs : e.created /\ e.sink = "ok"

----------------------------------------------------------------------------
(* Actions *)

\* validate_gamepad_state(state) is called.
Validate ==
    /\ wire.valid = <<>>
    /\ wire' = [wire EXCEPT !.valid = <<validate_gamepad_state(wire.state)>>]
    /\ last' = [op |-> "validate"]
    /\ UNCHANGED <<now, ticks, cfg, sec, tb, host, run, inflight, passed>>

\* data = pack(state) is called; data stays None when it raises.
Pack ==
    /\ ~wire.packed
    /\ wire' = [wire EXCEPT !.data = pack(wire.state), !.packed = TRUE]
    /\ last' = [op |-> "pack"]
    /\ UNCHANGED <<now, ticks, cfg, sec, tb, host, run, inflight, passed>>

\* Another buffer arrives in place of the one packed.
Mangle(buf) ==
    /\ wire.data # <<>>
    /\ ~wire.mangled
    /\ ~wire.unpacked
    /\ wire' = [wire EXCEPT !.data = <<buf>>, !.mangled = TRUE]
    /\ last' = [op |-> "mangle"]
    /\ UNCHANGED <<now, ticks, cfg, sec, tb, host, run, inflight, passed>>

\* unpack(data) is called; out is None when it raises.
Unpack ==
    /\ wire.data # <<>>
    /\ ~wire.unpacked
    /\ wire' = [wire EXCEPT !.out = unpack(decode(wire.data[1])),
                            !.unpacked = TRUE]
    /\ last' = [op |-> "unpack"]
    /\ UNCHANGED <<now, ticks, cfg, sec, tb, host, run, inflight, passed>>

Tick(d) ==
    /\ ticks < MaxTicks
    /\ now' = now + d
    /\ ticks' = ticks + 1
    /\ last' = [op |-> "tick"]
    /\ UNCHANGED <<cfg, sec, tb, host, wire, run, inflight, passed>>

CheckPacket(p) ==
    LET r == check_packet(sec, cfg, now, p)
    IN  /\ sec' = r.s
        /\ last' = [op |-> "check_packet", allowed |-> r.allowed, reason |-> r.reason]
        /\ UNCHANGED <<now, ticks, cfg, tb, host, wire, run, inflight, passed>>

BlockIp(ip, duration) ==
    /\ sec' = block_ip(sec, cfg, now, ip, duration)
    /\ last' = [op |-> "block_ip"]
    /\ UNCHANGED <<now, ticks, cfg, tb, host, wire, run, inflight, passed>>

UnblockIp(ip) ==
    /\ sec' = unblock_ip(sec, cfg, now, ip)
    /\ last' = [op |-> "unblock_ip"]
    /\ UNCHANGED <<now, ticks, cfg, tb, host, wire, run, inflight, passed>>

RecvDatagram(data, addr, e) ==
    LET r == recv_datagram(host, sec, cfg, now, data, addr, e)
    IN  /\ host.packet_count < MaxPackets
        /\ host' = r.host
        /\ sec' = r.sec
        /\ last' = [op |-> "recv", reason |-> r.reason]
        /\ UNCHANGED <<now, ticks, cfg, tb, wire, run, inflight, passed>>

RecvTimeout ==
    /\ host' = recv_timeout(host, now)
    /\ last' = [op |-> "timeout"]
    /\ UNCHANGED <<now, ticks, cfg, sec, tb, wire, run, inflight, passed>>

Elapse(d) ==
    /\ ticks < MaxHostTicks
    /\ now' = now + d
    /\ ticks' = ticks + 1
    /\ last' = [op |-> "tick"]
    /\ UNCHANGED <<cfg, sec, tb, host, wire, run, inflight, passed>>

\* One loop iteration on a datagram in multi-slot runs; the status line of a
\* rejected datagram tells its size.
RecvSlotDatagram(data, addr, e) ==
    LET r == recv_datagram(host, sec, cfg, now, data, addr, e)
    IN  /\ r.host.packet_count <= MaxSlotPackets
        /\ host' = r.host
        /\ sec' = r.sec
        /\ last' = [op |-> "recv", reason |-> r.reason, size |-> data.size]
        /\ UNCHANGED <<now, ticks, cfg, tb, wire, run, inflight, passed>>

SlotElapse(d) ==
    /\ ticks < MaxSlotTicks
    /\ now' = now + d
    /\ ticks' = ticks + 1
    /\ last' = [op |-> "tick"]
    /\ UNCHANGED <<cfg, sec, tb, host, wire, run, inflight, passed>>

Consume ==
    /\ Len(tb.calls) < MaxCalls
    /\ LET r == consume(tb.bucket, 1, now)
       IN  tb' = [bucket |-> r.bucket,
                  calls |-> Append(tb.calls, [t |-> now, ok |-> r.ok])]
    /\ last' = [op |-> "consume"]
    /\ UNCHANGED <<now, ticks, cfg, sec, host, wire, run, inflight, passed>>

Sleep(d) ==
    /\ ticks < MaxTicks
    /\ now' = now + d
    /\ ticks' = ticks + 1
    /\ last' = [op |-> "sleep"]
    /\ UNCHANGED <<cfg, sec, tb, host, wire, run, inflight, passed>>

\* The operator calls start().
Start ==
    /\ run.starts < MaxStarts
    /\ run' = [start(run) EXCEPT !.starts = @ + 1]
    /\ last' = [op |-> "start"]
    /\ UNCHANGED <<now, ticks, cfg, sec, tb, host, wire, inflight, passed>>

\* The operator calls stop().
Stop ==
    /\ run.stops < MaxStops
    /\ run' = [stop(run) EXCEPT !.stops = @ + 1]
    /\ last' = [op |-> "stop"]
    /\ UNCHANGED <<now, ticks, cfg, sec, tb, host, wire, inflight, passed>>

\* Thread i runs _run up to the loop: the socket is made and bound, and single
\* mode goes on to set its gamepad up.
Setup(i) ==
    /\ run.threads[i].pc = "setup"
    /\ run' = [run EXCEPT !.sock = "open",
                          !.threads[i] = IF host.multi_gamepad
                                         THEN [pc |-> "top", attempt |-> 0]
                                         ELSE [pc |-> "init", attempt |-> 1]]
    /\ last' = [op |-> "setup"]
    /\ UNCHANGED <<now, ticks, cfg, sec, tb, host, wire, inflight, passed>>

\* Thread i makes one attempt of _init_single_gamepad.
InitAttempt(i, created) ==
    /\ run.threads[i].pc = "init"
    /\ host' = _init_single_gamepad(host, created)
    /\ run' = [run EXCEPT !.threads[i].pc =
                  IF ~host.VGAME_AVAILABLE \/ created THEN "top"
                  ELSE IF run.threads[i].attempt < max_retries THEN "backoff"
                  ELSE "top"]
    /\ last' = [op |-> "init_attempt"]
    /\ UNCHANGED <<now, ticks, cfg, sec, tb, wire, inflight, passed>>

\* Thread i returns from self._stop.wait(timeout=2.0): at once when the event
\* is set (and _init_single_gamepad returns), after two seconds otherwise.
Backoff(i) ==
    /\ run.threads[i].pc = "backoff"
    /\ run' = IF run.stop
              THEN [run EXCEPT !.threads[i].pc = "top"]
              ELSE [run EXCEPT !.threads[i].pc = "init", !.threads[i].attempt = @ + 1]
    /\ last' = [op |-> "backoff"]
    /\ UNCHANGED <<now, ticks, cfg, sec, tb, host, wire, inflight, passed>>

\* Thread i tests the stop event at the head of the loop.
LoopTop(i) ==
    /\ run.threads[i].pc = "top"
    /\ run' = [run EXCEPT !.threads[i].pc = loop_test(run.stop)]
    /\ last' = [op |-> "top"]
    /\ UNCHANGED <<now, ticks, cfg, sec, tb, host, wire, inflight, passed>>

\* Thread i receives a datagram and handles it.
Receive(i, data, addr, e, cb) ==
    /\ run.threads[i].pc = "recv"
    /\ run.sock = "open"
    /\ host.packet_count < MaxRunPackets
    /\ \E r \in {run_iteration(host, sec, cfg, now, data, addr, e, cb)} :
          /\ host' = r.host
          /\ sec' = r.sec
          /\ run' = [run EXCEPT !.threads[i].pc = IF r.raised THEN "died" ELSE "top"]
          /\ last' = [op |-> "recv", reason |-> r.reason]
    /\ UNCHANGED <<now, ticks, cfg, tb, wire, inflight, passed>>

\* recvfrom of thread i times out after half a second.
ReceiveTimeout(i) ==
    /\ run.threads[i].pc = "recv"
    /\ run.sock = "open"
    /\ host' = recv_timeout(host, now)
    /\ run' = [run EXCEPT !.threads[i].pc = "top"]
    /\ last' = [op |-> "timeout"]
    /\ UNCHANGED <<now, ticks, cfg, sec, tb, wire, inflight, passed>>

\* settimeout or recvfrom of thread i raises on the closed or failed socket.
ReceiveError(i) ==
    /\ run.threads[i].pc = "recv"
    /\ run.sock \in {"closed", "broken"}
    /\ run' = [run EXCEPT !.threads[i].pc = "top"]
    /\ last' = [op |-> "recv error"]
    /\ UNCHANGED <<now, ticks, cfg, sec, tb, host, wire, inflight, passed>>

\* The socket of a running host becomes unusable (the interface goes away):
\* from now on every call on it raises OSError.
SocketFails ==
    /\ run.sock = "open"
    /\ ~run.stop
    /\ Alive(run) # {}
    /\ run' = [run EXCEPT !.sock = "broken"]
    /\ last' = [op |-> "socket fails"]
    /\ UNCHANGED <<now, ticks, cfg, sec, tb, host, wire, inflight, passed>>

\* Thread i runs _run up to bind, which raises (the port is taken): the
\* exception leaves _run, after the one status line written before it.
BindFails(i) ==
    /\ run.threads[i].pc = "setup"
    /\ run' = [run EXCEPT !.sock = "open", !.threads[i].pc = "died"]
    /\ last' = [op |-> "bind error", status |-> <<"listening">>]
    /\ UNCHANGED <<now, ticks, cfg, sec, tb, host, wire, inflight, passed>>

\* check_packet is called, and what became of the packet at the per-IP and
\* the per-client bucket is written down, with the records the sweep of this
\* call evicted.
CheckPacketCounted(p) ==
    /\ Len(passed) < MaxRateCalls
    /\ \E r \in {check_packet(sec, cfg, now, p)} :
          /\ sec' = r.s
          /\ last' = [op |-> "check_packet", allowed |-> r.allowed, reason |-> r.reason]
          /\ passed' = Append(passed,
                 [t |-> now, ip |-> p.ip, client_id |-> p.client_id,
                  ip_passed |-> r.reason \in {"Client rate limit exceeded",
                                              "Too many clients from IP", "OK"},
                  client_passed |-> r.reason \in {"Too many clients from IP", "OK"},
                  evicted |-> IF cleanup_due(sec, now)
                              THEN DOMAIN sec.clients \
                                       DOMAIN _cleanup_old_data(sec, now).clients
                              ELSE {}])
    /\ UNCHANGED <<now, ticks, cfg, tb, host, wire, run, inflight>>

\* The operator reads the recent events.
GetRecentEvents(limit) ==
    /\ last' = [op |-> "get_recent_events", limit |-> limit,
                events |-> get_recent_events(sec, limit)]
    /\ UNCHANGED <<now, ticks, cfg, sec, tb, host, wire, run, inflight, passed>>

\* The operator's calls, made one after the other on manager s.
RECURSIVE Replay(_, _)
Replay(s, ops) ==
    IF ops = <<>> THEN s
    ELSE Replay(IF Head(ops).op = "block_ip"
                THEN block_ip(s, cfg, Head(ops).t, Head(ops).ip, Head(ops).duration)
                ELSE unblock_ip(s, cfg, Head(ops).t, Head(ops).ip),
                Tail(ops))

\* The block tables that check_packet and the operator's calls overlapping it
\* leave when they are made one after the other, in some order.
SerialTables(c) ==
    {Replay(check_packet(Replay(c.base, SubSeq(c.ops, 1, k)), cfg, c.t, c.p).s,
            SubSeq(c.ops, k + 1, Len(c.ops))).blocked_ips : k \in 0..Len(c.ops)}

\* The operator's call has taken effect while the receive thread is inside
\* check_packet: it is noted as overlapping that call.
Overlapping(call) ==
    IF inflight.recv.pc \in {"idle", "returned", "dead"} THEN inflight.recv
    ELSE [inflight.recv EXCEPT !.ops = Append(@, call)]

\* check_packet of the receive thread returns result r; serial tells whether
\* it leaves the block table as one of the sequential orders does.
Returned(r) ==
    [pc |-> "returned",
     serial |-> r.s.blocked_ips \in SerialTables(inflight.recv)]

\* The receive thread enters check_packet(p): it reads the clock and, when the
\* sweep is due, starts _cleanup_old_data and the iteration over _blocked_ips.
CheckEnter(p) ==
    /\ inflight.recv.pc \in {"idle", "returned"}
    /\ sec' = IF cleanup_due(sec, now) THEN [sec EXCEPT !.last_cleanup = now] ELSE sec
    /\ inflight' = [inflight EXCEPT !.recv =
                       [pc |-> IF cleanup_due(sec, now) THEN "sweep" ELSE "stage",
                        p |-> p, t |-> now, base |-> sec, ops |-> <<>>,
                        size |-> Cardinality(DOMAIN sec.blocked_ips), expired |-> {}]]
    /\ last' = [op |-> "check_packet enters"]
    /\ UNCHANGED <<now, ticks, cfg, tb, host, wire, run, passed>>

\* The iteration over _blocked_ips.items() ends: with RuntimeError when the
\* dictionary changed size since it began, with the expired blocks otherwise.
SweepList ==
    /\ inflight.recv.pc = "sweep"
    /\ inflight' =
          IF Cardinality(DOMAIN sec.blocked_ips) # inflight.recv.size
          THEN [inflight EXCEPT !.recv = [pc |-> "dead"],
                                !.failed = @ \cup {"RuntimeError in _cleanup_old_data"}]
          ELSE [inflight EXCEPT !.recv.pc = "sweep_del",
                                !.recv.expired =
                                    {ip \in DOMAIN sec.blocked_ips :
                                        inflight.recv.t >= sec.blocked_ips[ip]}]
    /\ last' = [op |-> "sweep lists"]
    /\ UNCHANGED <<now, ticks, cfg, sec, tb, host, wire, run, passed>>

\* The expired blocks are deleted (KeyError when one is gone) and the rest of
\* _cleanup_old_data runs.
SweepDelete ==
    /\ inflight.recv.pc = "sweep_del"
    /\ IF inflight.recv.expired \subseteq DOMAIN sec.blocked_ips
       THEN /\ sec' = [_cleanup_old_data(sec, inflight.recv.t) EXCEPT
                          !.blocked_ips = [ip \in DOMAIN sec.blocked_ips
                                                    \ inflight.recv.expired |->
                                              sec.blocked_ips[ip]]]
            /\ inflight' = [inflight EXCEPT !.recv.pc = "stage"]
       ELSE /\ sec' = sec
            /\ inflight' = [inflight EXCEPT
                               !.recv = [pc |-> "dead"],
                               !.failed = @ \cup {"KeyError in _cleanup_old_data"}]
    /\ last' = [op |-> "sweep deletes"]
    /\ UNCHANGED <<now, ticks, cfg, tb, host, wire, run, passed>>

\* The whitelist stage and the test `ip_address in self._blocked_ips`: the
\* call goes on to the end when the address is not in the table.
BlockStageTest ==
    LET p == inflight.recv.p
        t == inflight.recv.t
        listed == ~(cfg.enable_whitelist /\ p.ip \notin cfg.whitelist_ips)
        r == cp_whitelist(sec, cfg, t, p)
    IN  /\ inflight.recv.pc = "stage"
        /\ IF listed /\ p.ip \in DOMAIN sec.blocked_ips
           THEN /\ sec' = sec
                /\ inflight' = [inflight EXCEPT !.recv.pc = "subscript"]
                /\ last' = [op |-> "blocked_ips test"]
           ELSE /\ sec' = r.s
                /\ inflight' = [inflight EXCEPT !.recv = Returned(r)]
                /\ last' = [op |-> "check_packet", allowed |-> r.allowed,
                            reason |-> r.reason]
        /\ UNCHANGED <<now, ticks, cfg, tb, host, wire, run, passed>>

\* `current_time < self._blocked_ips[ip_address]`: KeyError when the entry is
\* gone, "IP is blocked" when the block stands.
BlockStageRead ==
    LET p == inflight.recv.p
        t == inflight.recv.t
        r == cp_ip_block(sec, cfg, t, p)
    IN  /\ inflight.recv.pc = "subscript"
        /\ IF p.ip \notin DOMAIN sec.blocked_ips
           THEN /\ sec' = sec
                /\ inflight' = [inflight EXCEPT
                                   !.recv = [pc |-> "dead"],
                                   !.failed = @ \cup {"KeyError in check_packet"}]
                /\ last' = [op |-> "blocked_ips read"]
           ELSE IF t < sec.blocked_ips[p.ip]
           THEN /\ sec' = r.s
                /\ inflight' = [inflight EXCEPT !.recv = Returned(r)]
                /\ last' = [op |-> "check_packet", allowed |-> r.allowed,
                            reason |-> r.reason]
           ELSE /\ sec' = sec
                /\ inflight' = [inflight EXCEPT !.recv.pc = "del"]
                /\ last' = [op |-> "blocked_ips read"]
        /\ UNCHANGED <<now, ticks, cfg, tb, host, wire, run, passed>>

\* `del self._blocked_ips[ip_address]` of the expired block (KeyError when
\* the entry is gone), and the call goes on to the end.
BlockStageDelete ==
    LET p == inflight.recv.p
        t == inflight.recv.t
        r == cp_client_block([sec EXCEPT !.blocked_ips = Del(@, p.ip)], cfg, t, p)
    IN  /\ inflight.recv.pc = "del"
        /\ IF p.ip \notin DOMAIN sec.blocked_ips
           THEN /\ sec' = sec
                /\ inflight' = [inflight EXCEPT
                                   !.recv = [pc |-> "dead"],
                                   !.failed = @ \cup {"KeyError in check_packet"}]
                /\ last' = [op |-> "blocked_ips del"]
           ELSE /\ sec' = r.s
                /\ inflight' = [inflight EXCEPT !.recv = Returned(r)]
                /\ last' = [op |-> "check_packet", allowed |-> r.allowed,
                            reason |-> r.reason]
        /\ UNCHANGED <<now, ticks, cfg, tb, host, wire, run, passed>>

\* The operator calls block_ip(ip, duration).
OperBlock(ip, duration) ==
    /\ inflight.oper.pc = "idle"
    /\ inflight.calls < MaxOperCalls
    /\ sec' = block_ip(sec, cfg, now, ip, duration)
    /\ inflight' = [inflight EXCEPT
                       !.calls = @ + 1,
                       !.recv = Overlapping([op |-> "block_ip", ip |-> ip,
                                             duration |-> duration, t |-> now])]
    /\ last' = [op |-> "block_ip"]
    /\ UNCHANGED <<now, ticks, cfg, tb, host, wire, run, passed>>

\* The operator calls unblock_ip(ip): the test `ip_address in
\* self._blocked_ips`.
OperUnblockTest(ip) ==
    /\ inflight.oper.pc = "idle"
    /\ inflight.calls < MaxOperCalls
    /\ inflight' = IF ip \in DOMAIN sec.blocked_ips
                   THEN [inflight EXCEPT !.calls = @ + 1,
                                         !.oper = [pc |-> "del", ip |-> ip]]
                   ELSE [inflight EXCEPT
                            !.calls = @ + 1,
                            !.recv = Overlapping([op |-> "unblock_ip", ip |-> ip,
                                                  t |-> now])]
    /\ last' = [op |-> "unblock_ip test"]
    /\ UNCHANGED <<now, ticks, cfg, sec, tb, host, wire, run, passed>>

\* unblock_ip: `del self._blocked_ips[ip_address]` (KeyError when the entry is
\* gone) and the event.
OperUnblockDelete ==
    LET ip == inflight.oper.ip
    IN  /\ inflight.oper.pc = "del"
        /\ IF ip \in DOMAIN sec.blocked_ips
           THEN /\ sec' = unblock_ip(sec, cfg, now, ip)
                /\ inflight' = [inflight EXCEPT
                                   !.oper = [pc |-> "idle"],
                                   !.recv = Overlapping([op |-> "unblock_ip",
                                                         ip |-> ip, t |-> now])]
           ELSE /\ sec' = sec
                /\ inflight' = [inflight EXCEPT
                                   !.oper = [pc |-> "idle"],
                                   !.failed = @ \cup {"KeyError in unblock_ip"}]
        /\ last' = [op |-> "unblock_ip del"]
        /\ UNCHANGED <<now, ticks, cfg, tb, host, wire, run, passed>>

----------------------------------------------------------------------------
(* SpecBucket: one TokenBucket(rate, burst), constructed at time 0, and its  *)
(* consume(1) calls as time passes.  Its time unit is whatever the rate is   *)
(* given in (rate 1 is ten tokens a second when the unit is 0.1 s).          *)

BucketInit ==
    /\ now = 0
    /\ ticks = 0
    /\ cfg = SecurityConfig(FALSE)
    /\ sec = SecurityManager(0)
    /\ last = [op |-> "init"]
    /\ wire = NoWire
    /\ run = NoRun
    /\ inflight = NoCalls
    /\ passed = <<>>
    /\ host = NoHost
    /\ \E rate \in 1..MaxRate, burst \in 1..MaxBurst :
          tb = [bucket |-> TokenBucket(rate, burst, 0), calls |-> <<>>]

BucketNext ==
    \/ Consume
    \/ \E d \in 1..MaxSleep : Sleep(d)

SpecBucket == BucketInit /\ [][BucketNext]_vars

(* SpecProtocol: a GamepadState built by a sender, validated, packed and    *)
(* unpacked again, the buffer possibly replaced on the way.                  *)

ProtocolInit ==
    /\ now = 0
    /\ ticks = 0
    /\ cfg = SecurityConfig(FALSE)
    /\ sec = SecurityManager(0)
    /\ last = [op |-> "init"]
    /\ tb = NoBucket
    /\ host = NoHost
    /\ run = NoRun
    /\ inflight = NoCalls
    /\ passed = <<>>
    /\ \E state \in WireStates : wire = [NoWire EXCEPT !.state = state]

ProtocolNext ==
    \/ Validate
    \/ Pack
    \/ wire.data # <<>> /\ \E buf \in Mangled(wire.data[1]) : Mangle(buf)
    \/ Unpack

SpecProtocol == ProtocolInit /\ [][ProtocolNext]_vars

(* SpecSecurity: a SecurityManager, its check_packet calls from the receive  *)
(* thread and the operator's block_ip / unblock_ip calls, as time passes.    *)

SecurityInit ==
    /\ now = 0
    /\ ticks = 0
    /\ cfg \in {SecurityConfig(FALSE), SecurityConfig(TRUE)}
    /\ sec = SecurityManager(0)
    /\ last = [op |-> "init"]
    /\ wire = NoWire
    /\ run = NoRun
    /\ inflight = NoCalls
    /\ passed = <<>>
    /\ tb = NoBucket
    /\ host = NoHost

SecurityNext ==
    \/ \E p \in Packets(cfg, now, SentAges(cfg)) : CheckPacket(p)
    \/ \E ip \in Ips, d \in Durations : BlockIp(ip, d)
    \/ \E ip \in Ips : UnblockIp(ip)
    \/ \E d \in TickSteps : Tick(d)

SpecSecurity == SecurityInit /\ [][SecurityNext]_vars

(* SpecHost: a GamepadHost whose receive thread runs _run: the gamepad of    *)
(* single mode has been set up (or not), and each step is one iteration of   *)
(* the loop, on a datagram or on a receive timeout, as time passes.          *)

HostInit ==
    /\ now = 0
    /\ ticks = 0
    /\ cfg = SecurityConfig(FALSE)
    /\ sec = SecurityManager(0)
    /\ last = [op |-> "init"]
    /\ wire = NoWire
    /\ run = NoRun
    /\ inflight = NoCalls
    /\ passed = <<>>
    /\ tb = NoBucket
    /\ \E multi_gamepad \in BOOLEAN, vgame_available \in BOOLEAN, created \in BOOLEAN :
          host = IF multi_gamepad
                 THEN GamepadHost(TRUE, vgame_available)
                 ELSE _init_single_gamepad(GamepadHost(FALSE, vgame_available), created)

HostNext ==
    \/ \E data \in SentDatagrams(cfg, now), e \in MetEnvs :
          RecvDatagram(data, HomeAddr(data.state.client_id), e)
    \/ RecvTimeout
    \/ \E d \in HostTickSteps : Elapse(d)

SpecHost == HostInit /\ [][HostNext]_vars

(* SpecSession: a GamepadHost with the default SecurityConfig and a working   *)
(* driver, receiving fresh packets whose sequence numbers repeat, go back    *)
(* and wrap.                                                                 *)

SessionInit ==
    /\ now = 0
    /\ ticks = 0
    /\ cfg = DefaultSecurityConfig
    /\ sec = SecurityManager(0)
    /\ last = [op |-> "init"]
    /\ wire = NoWire
    /\ run = NoRun
    /\ inflight = NoCalls
    /\ passed = <<>>
    /\ tb = NoBucket
    /\ \E multi_gamepad \in BOOLEAN, vgame_available \in BOOLEAN :
          host = IF multi_gamepad
                 THEN GamepadHost(TRUE, vgame_available)
                 ELSE _init_single_gamepad(GamepadHost(FALSE, vgame_available), TRUE)

SessionNext ==
    \/ \E data \in SessionDatagrams(now) :
          RecvDatagram(data, HomeAddr(data.state.client_id), DriverWorks)
    \/ RecvTimeout
    \/ \E d \in SessionTickSteps : Elapse(d)

SpecSession == SessionInit /\ [][SessionNext]_vars

(* SpecSlots: a GamepadHost in multi-slot mode with the default             *)
(* SecurityConfig and a working driver, and five clients, each at its own    *)
(* address, that join, fall silent and are evicted.  SpecLive is the same    *)
(* host with short datagrams arriving as well, its receive thread never      *)
(* ceasing to iterate the loop.                                              *)

SlotsInit ==
    /\ now = 0
    /\ ticks = 0
    /\ cfg = DefaultSecurityConfig
    /\ sec = SecurityManager(0)
    /\ last = [op |-> "init"]
    /\ wire = NoWire
    /\ run = NoRun
    /\ inflight = NoCalls
    /\ passed = <<>>
    /\ tb = NoBucket
    /\ \E vgame_available \in BOOLEAN : host = GamepadHost(TRUE, vgame_available)

SlotsNext ==
    \/ \E data \in SlotDatagrams(sec, now, ticks) :
          RecvSlotDatagram(data, HomeAddr(data.state.client_id), DriverWorks)
    \/ RecvTimeout
    \/ \E d \in SlotTickSteps : SlotElapse(d)

SpecSlots == SlotsInit /\ [][SlotsNext]_vars

(* SpecRoam: the multi-slot host whose clients send from either address,   *)
(* the driver working.                                                       *)

RoamNext ==
    \/ \E data \in Datagrams(cfg, now, {0}), addr \in Addrs :
          RecvDatagram(data, addr, DriverWorks)
    \/ RecvTimeout
    \/ \E d \in SessionTickSteps : Elapse(d)

SpecRoam == SlotsInit /\ [][RoamNext]_vars

LoopIteration ==
    \/ \E data \in SlotDatagrams(sec, now, ticks) \cup ShortDatagrams(now) :
          RecvSlotDatagram(data, HomeAddr(data.state.client_id), DriverWorks)
    \/ RecvTimeout

LiveNext ==
    \/ LoopIteration
    \/ \E d \in SlotTickSteps : SlotElapse(d)

SpecLive == SlotsInit /\ [][LiveNext]_vars /\ WF_vars(LoopIteration)

(* SpecRun: a GamepadHost that the operator starts and stops, its receive   *)
(* thread going through _run step by step; the gamepad may fail to be        *)
(* created, and telemetry_cb may raise.  SpecStop is the same host with the  *)
(* receive thread scheduled again and again.                                 *)

Callbacks == {"ok", "raise"}

RunInit ==
    /\ now = 0
    /\ ticks = 0
    /\ cfg = DefaultSecurityConfig
    /\ sec = SecurityManager(0)
    /\ last = [op |-> "init"]
    /\ wire = NoWire
    /\ tb = NoBucket
    /\ run = NoRun
    /\ inflight = NoCalls
    /\ passed = <<>>
    /\ \E multi_gamepad \in BOOLEAN, vgame_available \in BOOLEAN :
          host = GamepadHost(multi_gamepad, vgame_available)

ThreadStep(i) ==
    \/ Setup(i)
    \/ \E created \in BOOLEAN : InitAttempt(i, created)
    \/ Backoff(i)
    \/ LoopTop(i)
    \/ ReceiveTimeout(i)
    \/ ReceiveError(i)

RunNext ==
    \/ Start
    \/ Stop
    \/ \E i \in DOMAIN run.threads : ThreadStep(i)
    \/ \E i \in DOMAIN run.threads, data \in Datagrams(cfg, now, {0}),
          e \in MetEnvs, cb \in Callbacks :
          Receive(i, data, HomeAddr(data.state.client_id), e, cb)

SpecRun == RunInit /\ [][RunNext]_vars

SpecStop == SpecRun /\ WF_vars(\E i \in DOMAIN run.threads : ThreadStep(i))

(* SpecSweep: a SecurityManager over a run long enough for records to go    *)
(* stale while their client is still blocked.                                *)

SweepInit ==
    /\ now = 0
    /\ ticks = 0
    /\ cfg = SweepConfig
    /\ sec = SecurityManager(0)
    /\ last = [op |-> "init"]
    /\ wire = NoWire
    /\ run = NoRun
    /\ inflight = NoCalls
    /\ passed = <<>>
    /\ tb = NoBucket
    /\ host = NoHost

SweepNext ==
    \/ \E p \in Packets(cfg, now, SentAges(cfg)) : CheckPacket(p)
    \/ \E ip \in Ips : BlockIp(ip, <<1>>)
    \/ \E d \in SweepTickSteps : Tick(d)

SpecSweep == SweepInit /\ [][SweepNext]_vars

(* SpecEvents: a SecurityManager that keeps its event log, empty or one     *)
(* event short of full when the run begins; at most MaxEventsPerTick events  *)
(* are logged at one clock reading.                                          *)

EventsInit ==
    /\ now = 0
    /\ ticks = 0
    /\ cfg = EventConfig
    /\ \E n \in {0, EventLogCap - 1} : sec = Logged(n)
    /\ last = [op |-> "init"]
    /\ wire = NoWire
    /\ run = NoRun
    /\ inflight = NoCalls
    /\ passed = <<>>
    /\ tb = NoBucket
    /\ host = NoHost

\* Fewer than MaxEventsPerTick events were logged at this clock reading.
Quiet ==
    LET ev == sec.security_events
    IN  IF Len(ev) < MaxEventsPerTick THEN TRUE
        ELSE ev[Len(ev) - MaxEventsPerTick + 1].timestamp < now

EventsNext ==
    \/ Quiet /\ \E p \in EventPackets(now) : CheckPacket(p)
    \/ Quiet /\ BlockIp(1, <<1>>)
    \/ Quiet /\ UnblockIp(1)
    \/ \E limit \in Limits : GetRecentEvents(limit)
    \/ Tick(1)

SpecEvents == EventsInit /\ [][EventsNext]_vars

(* SpecTransport: the host of SpecStop whose socket may fail, at bind or     *)
(* while the loop runs.                                                      *)

TransportNext ==
    \/ Start
    \/ Stop
    \/ \E i \in DOMAIN run.threads : ThreadStep(i)
    \/ \E i \in DOMAIN run.threads : BindFails(i)
    \/ SocketFails
    \/ \E i \in DOMAIN run.threads, data \in Datagrams(cfg, now, {0}),
          e \in MetEnvs :
          Receive(i, data, HomeAddr(data.state.client_id), e, "ok")

SpecTransport ==
    /\ RunInit
    /\ [][TransportNext]_vars
    /\ WF_vars(\E i \in DOMAIN run.threads : ThreadStep(i))

(* SpecRate: a SecurityManager whose check_packet calls are counted.         *)

RateInit ==
    /\ now = 0
    /\ ticks = 0
    /\ cfg = RateConfig
    /\ sec = SecurityManager(0)
    /\ last = [op |-> "init"]
    /\ wire = NoWire
    /\ run = NoRun
    /\ inflight = NoCalls
    /\ passed = <<>>
    /\ tb = NoBucket
    /\ host = NoHost

RateNext ==
    \/ \E p \in RatePackets(now) : CheckPacketCounted(p)
    \/ \E d \in RateTickSteps : Tick(d)

SpecRate == RateInit /\ [][RateNext]_vars

(* SpecShared: the multi-slot host of SpecSlots whose clients all send from  *)
(* one address.                                                              *)

SharedNext ==
    \/ \E data \in SharedDatagrams(sec, now, ticks) :
          RecvSlotDatagram(data, SharedAddr, DriverWorks)
    \/ RecvTimeout
    \/ \E d \in SlotTickSteps : SlotElapse(d)

SpecShared == SlotsInit /\ [][SharedNext]_vars

(* SpecRace: a SecurityManager whose check_packet, called by the receive    *)
(* thread, and block_ip / unblock_ip, called by the operator's thread, run   *)
(* without a lock: the accesses of check_packet and _cleanup_old_data to     *)
(* _blocked_ips and those of unblock_ip are separate steps.                  *)

\* The packets checked: fresh ones of one client from either address.
RacePackets(t) == [client_id : {0}, ip : Ips, timestamp : {perf_counter(t)}]

RaceNext ==
    \/ \E p \in RacePackets(now) : CheckEnter(p)
    \/ SweepList
    \/ SweepDelete
    \/ BlockStageTest
    \/ BlockStageRead
    \/ BlockStageDelete
    \/ \E ip \in Ips, d \in Durations : OperBlock(ip, d)
    \/ \E ip \in Ips : OperUnblockTest(ip)
    \/ OperUnblockDelete
    \/ \E d \in TickSteps : Tick(d)

SpecRace == SecurityInit /\ [][RaceNext]_vars

----------------------------------------------------------------------------
(* Properties of the token bucket (SpecBucket)                               *)

\* C10: a fresh TokenBucket with burst B and rate R lets exactly the first B
\* consume(1) calls made with no time elapsing succeed and fails the later
\* ones, and a consume(1) made at least one time unit (>= 1/R, as R >= 1) after
\* the previous call succeeds.
BurstThenRefill ==
    /\ \A i \in 1..Len(tb.calls) :
          tb.calls[i].t = 0 => (tb.calls[i].ok <=> i <= tb.bucket.burst)
    /\ \A i \in 2..Len(tb.calls) :
          tb.calls[i].t - tb.calls[i - 1].t >= 1 => tb.calls[i].ok

\* Rate 1 per unit of 0.1 s, burst 5: five succeed, the sixth fails, and the
\* seventh, three units later, succeeds.
BurstThenRefillWitness ==
    /\ tb.bucket.rate = 1 /\ tb.bucket.burst = 5
    /\ Len(tb.calls) = 7
    /\ \A i \in 1..6 : tb.calls[i].t = 0
    /\ \A i \in 1..5 : tb.calls[i].ok
    /\ ~tb.calls[6].ok
    /\ tb.calls[7].t = 3 /\ tb.calls[7].ok

----------------------------------------------------------------------------
(* Properties of the admission controller (SpecSecurity)                     *)

\* Every packet that may arrive now, with ages on both sides of both limits.
AllPackets == Packets(cfg, now, Ages(cfg))

\* The packets the senders send now: fresh, too old and too far ahead.
SentPackets == Packets(cfg, now, SentAges(cfg))

\* The manager as the housekeeping sweep at the head of check_packet leaves it.
Swept(s, t) == IF cleanup_due(s, t) THEN _cleanup_old_data(s, t) ELSE s

Entry(f, k) == IF k \in DOMAIN f THEN <<f[k]>> ELSE <<>>

Members(s, ip) == IF ip \in DOMAIN s.ip_clients THEN s.ip_clients[ip] ELSE {}

\* The five tables of the manager, a per-IP client set that is absent counting
\* as empty.
Tables(s) ==
    <<s.clients, [ip \in Ips |-> Members(s, ip)], s.client_buckets, s.ip_buckets,
      s.blocked_ips>>

\* s1 has no entry in any table that s has not.
NothingCreated(s1, s) ==
    /\ DOMAIN s1.clients \subseteq DOMAIN s.clients
    /\ DOMAIN s1.ip_clients \subseteq DOMAIN s.ip_clients
    /\ DOMAIN s1.client_buckets \subseteq DOMAIN s.client_buckets
    /\ DOMAIN s1.ip_buckets \subseteq DOMAIN s.ip_buckets
    /\ DOMAIN s1.blocked_ips \subseteq DOMAIN s.blocked_ips

\* Tokens a bucket holds at time t, before a consume at t takes any.
Level(b, t) == Min(b.burst, b.tokens + (t - b.last_update) * b.rate)

Age(t, p) == perf_counter(t) - p.timestamp

\* Stage k of the documented order rejects packet p in manager s at time t.
StageFails(k, s, c, t, p) ==
    CASE k = 1 -> c.enable_whitelist /\ p.ip \notin c.whitelist_ips
      [] k = 2 -> p.ip \in DOMAIN s.blocked_ips /\ t < s.blocked_ips[p.ip]
      [] k = 3 -> /\ p.client_id \in DOMAIN s.clients
                  /\ t < s.clients[p.client_id].blocked_until
      [] k = 4 -> \/ Age(t, p) > c.max_timestamp_age
                  \/ Age(t, p) < -c.max_timestamp_future
      [] k = 5 -> IF p.ip \in DOMAIN s.ip_buckets
                  THEN Level(s.ip_buckets[p.ip], t) < 1
                  ELSE c.rate_limit_burst < 1
      [] k = 6 -> IF p.client_id \in DOMAIN s.client_buckets
                  THEN Level(s.client_buckets[p.client_id], t) < 1
                  ELSE c.rate_limit_burst < 1
      [] k = 7 -> /\ p.client_id \notin Members(s, p.ip)
                  /\ Cardinality(Members(s, p.ip)) >= c.max_clients_per_ip

StageReason(k) ==
    CASE k = 1 -> "IP not in whitelist"
      [] k = 2 -> "IP is blocked"
      [] k = 3 -> "Client is blocked"
      [] k = 4 -> "Invalid timestamp"
      [] k = 5 -> "IP rate limit exceeded"
      [] k = 6 -> "Client rate limit exceeded"
      [] k = 7 -> "Too many clients from IP"

FailingStages(s, c, t, p) == {k \in 1..7 : StageFails(k, s, c, t, p)}

FirstFailing(F) == CHOOSE k \in F : \A j \in F : k <= j

\* C2: for every admission state and every packet, check_packet returns the
\* reason of the first stage, in the order whitelist, IP block, client block,
\* timestamp window, per-IP bucket, per-client bucket, per-IP client cap, that
\* fails, and allows the packet only if no stage fails.
StageOrder ==
    \A p \in AllPackets :
        LET r == check_packet(sec, cfg, now, p)
            F == FailingStages(Swept(sec, now), cfg, now, p)
        IN  IF F = {}
            THEN r.allowed /\ r.reason = "OK"
            ELSE ~r.allowed /\ r.reason = StageReason(FirstFailing(F))

\* A blocked client was just turned away, and one of its packets fails the
\* client-block, timestamp and both bucket stages at once.
StageOrderWitness ==
    /\ last.op = "check_packet" /\ last.reason = "Client is blocked"
    /\ \E p \in AllPackets :
          /\ {3, 4, 5, 6} \subseteq FailingStages(Swept(sec, now), cfg, now, p)
          /\ check_packet(sec, cfg, now, p).reason = "Client is blocked"

Blocked(s, cid, t) == cid \in DOMAIN s.clients /\ t < s.clients[cid].blocked_until

\* While a client is blocked every packet with its identifier is turned away,
\* as client-blocked whenever the whitelist and IP-block stages let it through;
\* a client that is not (or no longer) blocked is never turned away as blocked.
BlockedClientRejected ==
    \A p \in AllPackets :
        LET r == check_packet(sec, cfg, now, p)
            s0 == Swept(sec, now)
        IN  IF Blocked(sec, p.client_id, now)
            THEN /\ ~r.allowed
                 /\ (~StageFails(1, s0, cfg, now, p) /\ ~StageFails(2, s0, cfg, now, p))
                        => r.reason = "Client is blocked"
            ELSE r.reason # "Client is blocked"

\* A violation that brings the count to the threshold sets blocked_until to
\* now + block_duration.
ThresholdBlocks ==
    \A cid \in DOMAIN sec.clients \cap DOMAIN sec'.clients :
        (/\ sec'.clients[cid].violations > sec.clients[cid].violations
         /\ sec'.clients[cid].violations >= cfg.auto_block_threshold)
        => sec'.clients[cid].blocked_until = now + cfg.block_duration

\* Nothing lifts or shortens a block before blocked_until.
BlockStands ==
    \A cid \in DOMAIN sec.clients :
        now' < sec.clients[cid].blocked_until
        => /\ cid \in DOMAIN sec'.clients
           /\ sec'.clients[cid].blocked_until = sec.clients[cid].blocked_until

\* C3: once a client's violation count reaches the auto-block threshold the
\* client is blocked until now + block_duration; every check_packet for that
\* identifier before blocked_until is rejected (as client-blocked, fresh
\* timestamp and available tokens notwithstanding), and from blocked_until on
\* it is no longer rejected for being blocked.
AutoBlock ==
    /\ []BlockedClientRejected
    /\ [][ThresholdBlocks]_vars
    /\ [][BlockStands]_vars

\* A fresh packet of a client blocked at the threshold was just turned away,
\* although both of its buckets hold a token.
AutoBlockWitness ==
    /\ last.op = "check_packet" /\ last.reason = "Client is blocked"
    /\ \E p \in AllPackets :
          /\ Blocked(sec, p.client_id, now)
          /\ sec.clients[p.client_id].violations >= cfg.auto_block_threshold
          /\ FailingStages(Swept(sec, now), cfg, now, p) = {3}
          /\ check_packet(sec, cfg, now, p).reason = "Client is blocked"

\* C4: a rejection by the per-IP token bucket ("IP rate limit exceeded") never
\* increments any client's violation counter.
IpRateRejectionNotCounted ==
    [][(last'.op = "check_packet" /\ last'.reason = "IP rate limit exceeded")
         => \A cid \in DOMAIN sec.clients \cap DOMAIN sec'.clients :
               sec'.clients[cid].violations = sec.clients[cid].violations]_vars

\* What a packet from (B, ipB) meets: B's bucket and record, ipB's bucket and
\* client set.
Holdings(s, B, ipB) ==
    <<Entry(s.client_buckets, B), Entry(s.ip_buckets, ipB),
      Entry(s.clients, B), Members(s, ipB)>>

Verdict(s, c, t, q) ==
    LET r == check_packet(s, c, t, q) IN <<r.allowed, r.reason>>

\* C5 as stated: check_packet for (A, ipA) leaves B's token bucket, ipB's
\* token bucket, B's record and ipB's client set unchanged, for B # A and
\* ipB # ipA.
AdmissionIsolation ==
    \A p \in SentPackets : \A B \in ClientIds \ {p.client_id} : \A ipB \in Ips \ {p.ip} :
        Holdings(check_packet(sec, cfg, now, p).s, B, ipB) = Holdings(sec, B, ipB)

\* C5, amended: check_packet for (A, ipA) leaves B's token bucket, ipB's token
\* bucket, B's record and ipB's client set as the housekeeping sweep at the
\* head of the call leaves them (unchanged when no sweep is due), and the
\* verdict on any packet from (B, ipB) is the one it would get had A's packet
\* not been sent.
AdmissionIsolationSwept ==
    \A p \in SentPackets : \A B \in ClientIds \ {p.client_id} : \A ipB \in Ips \ {p.ip} :
        LET s1 == check_packet(sec, cfg, now, p).s
        IN  /\ Holdings(s1, B, ipB) = Holdings(Swept(sec, now), B, ipB)
            /\ \A q \in {x \in SentPackets : x.client_id = B /\ x.ip = ipB} :
                  Verdict(s1, cfg, now, q) = Verdict(sec, cfg, now, q)

\* A was just rejected for exceeding the rate and carries a violation, while B,
\* admitted from the other IP, has its record, bucket and no violation.
AdmissionIsolationWitness ==
    /\ last.op = "check_packet" /\ last.reason = "IP rate limit exceeded"
    /\ \E A \in DOMAIN sec.clients, B \in DOMAIN sec.clients :
          /\ A # B
          /\ sec.clients[A].ip_address # sec.clients[B].ip_address
          /\ sec.clients[A].violations >= 1
          /\ sec.clients[B].violations = 0
          /\ B \in DOMAIN sec.client_buckets
          /\ sec.clients[B].ip_address \in DOMAIN sec.ip_buckets

\* C7: every source IP's tracked client set holds at most max_clients_per_ip
\* identifiers; a packet whose identifier is new to an IP that holds the
\* maximum is rejected, with the too-many-clients reason when it reaches that
\* stage, and is not added; an identifier already in the IP's set is never
\* rejected by that stage.
ClientCap ==
    /\ \A ip \in DOMAIN sec.ip_clients :
          Cardinality(sec.ip_clients[ip]) <= cfg.max_clients_per_ip
    /\ \A p \in AllPackets :
          LET r == check_packet(sec, cfg, now, p)
              s0 == Swept(sec, now)
              held == Members(s0, p.ip)
          IN  IF p.client_id \in held
              THEN r.reason # "Too many clients from IP"
              ELSE Cardinality(held) >= cfg.max_clients_per_ip
                   => /\ ~r.allowed
                      /\ Members(r.s, p.ip) = held
                      /\ FailingStages(s0, cfg, now, p) \cap 1..6 = {}
                            => r.reason = "Too many clients from IP"

\* A second identifier was just turned away from an IP that holds the maximum.
ClientCapWitness ==
    /\ last.op = "check_packet" /\ last.reason = "Too many clients from IP"
    /\ \E ip \in DOMAIN sec.ip_clients :
          /\ Cardinality(sec.ip_clients[ip]) = cfg.max_clients_per_ip
          /\ \E p \in AllPackets :
                /\ p.ip = ip /\ p.client_id \notin sec.ip_clients[ip]
                /\ check_packet(sec, cfg, now, p).reason = "Too many clients from IP"

ActiveBlock(s, ip, t) == ip \in DOMAIN s.blocked_ips /\ t < s.blocked_ips[ip]

\* While an IP's block entry is active every packet from the IP is turned away
\* (as IP-blocked once past the whitelist) and the entry stays; otherwise no
\* packet is turned away as IP-blocked, and a check that gets past the
\* whitelist leaves no entry for the IP behind.
IpBlockStage ==
    \A p \in AllPackets :
        LET r == check_packet(sec, cfg, now, p)
            listed == ~StageFails(1, Swept(sec, now), cfg, now, p)
        IN  IF ActiveBlock(sec, p.ip, now)
            THEN /\ ~r.allowed
                 /\ listed => r.reason = "IP is blocked"
                 /\ Entry(r.s.blocked_ips, p.ip) = Entry(sec.blocked_ips, p.ip)
            ELSE /\ r.reason # "IP is blocked"
                 /\ listed => p.ip \notin DOMAIN r.s.blocked_ips

\* block_ip(ip, d) makes an entry that expires at now + d (block_duration when
\* d is not given); unblock_ip(ip) leaves none.
BlockUnblock ==
    \A ip \in Ips :
        /\ \A d \in Durations :
              LET until == now + (IF d = <<>> THEN cfg.block_duration ELSE d[1])
              IN  Entry(block_ip(sec, cfg, now, ip, d).blocked_ips, ip) = <<until>>
        /\ ip \notin DOMAIN unblock_ip(sec, cfg, now, ip).blocked_ips

\* An entry stands until it expires, is removed by unblock_ip or is replaced
\* by block_ip.
IpBlockStands ==
    \A ip \in DOMAIN sec.blocked_ips :
        (now' < sec.blocked_ips[ip] /\ last'.op = "check_packet")
        => Entry(sec'.blocked_ips, ip) = Entry(sec.blocked_ips, ip)

\* C8: after block_ip(ip, d) every check_packet from that IP made before the
\* block expires is rejected as IP-blocked, whatever the client identifier;
\* after unblock_ip(ip), or once the expiry time has passed, a packet from the
\* IP is no longer rejected at the IP-block stage, and the first check that
\* meets an expired entry removes it.
ManualBlock ==
    /\ [](IpBlockStage /\ BlockUnblock)
    /\ [][IpBlockStands]_vars

\* A packet from a blocked IP was just turned away while an expired entry of
\* the other IP is still in the table.
ManualBlockWitness ==
    /\ last.op = "check_packet" /\ last.reason = "IP is blocked"
    /\ \E ip \in DOMAIN sec.blocked_ips : ActiveBlock(sec, ip, now)
    /\ \E ip \in DOMAIN sec.blocked_ips : ~ActiveBlock(sec, ip, now)

\* C9 as stated: with the whitelist enabled a packet from an IP outside it is
\* rejected with the whitelist reason and the call changes no token bucket,
\* client record, per-IP client set or block entry.
WhitelistRejectChangesNothing ==
    cfg.enable_whitelist =>
        \A p \in AllPackets :
            p.ip \notin cfg.whitelist_ips
            => LET r == check_packet(sec, cfg, now, p)
               IN  /\ ~r.allowed /\ r.reason = "IP not in whitelist"
                   /\ NothingCreated(r.s, sec)
                   /\ Tables(r.s) = Tables(sec)

\* C9, amended: with the whitelist enabled a packet from an IP outside it is
\* rejected with the whitelist reason whatever the rest of the admission
\* state, and the call leaves every token bucket, client record, per-IP client
\* set and block entry as the housekeeping sweep at its head leaves them
\* (unchanged when no sweep is due); a packet from a whitelisted IP is never
\* rejected with the whitelist reason.
WhitelistReject ==
    cfg.enable_whitelist =>
        \A p \in AllPackets :
            LET r == check_packet(sec, cfg, now, p)
            IN  IF p.ip \notin cfg.whitelist_ips
                THEN /\ ~r.allowed /\ r.reason = "IP not in whitelist"
                     /\ NothingCreated(r.s, sec)
                     /\ Tables(r.s) = Tables(Swept(sec, now))
                ELSE r.reason # "IP not in whitelist"

\* A packet from outside the whitelist was just turned away while its IP is
\* blocked as well and a whitelisted client has a record and buckets.
WhitelistRejectWitness ==
    /\ cfg.enable_whitelist
    /\ last.op = "check_packet" /\ last.reason = "IP not in whitelist"
    /\ \E ip \in Ips \ cfg.whitelist_ips : ActiveBlock(sec, ip, now)
    /\ sec.clients # EmptyMap /\ sec.client_buckets # EmptyMap

----------------------------------------------------------------------------
(* Properties of the host (SpecHost)                                         *)

\* The admission check's view of a decoded datagram from addr.
PacketOf(data, addr) ==
    [client_id |-> data.state.client_id, ip |-> addr[1],
     timestamp |-> data.state.timestamp]

\* C1: in multi-slot mode one loop iteration on a datagram that carries client
\* identifier A, whatever its address, content and fate, leaves the session
\* (last sequence, last-applied buttons, last-accepted time, address,
\* telemetry counters, gamepad) of every other client identifier unchanged.
MultiSlotFrame ==
    host.multi_gamepad =>
        \A data \in Datagrams(cfg, now, {0, cfg.max_timestamp_age + 1}) :
        \A addr \in Addrs : \A e \in Envs :
            LET r == recv_datagram(host, sec, cfg, now, data, addr, e)
            IN  \A B \in ClientIds \ {data.state.client_id} :
                    Entry(r.host.clients, B) = Entry(host.clients, B)

\* A's second packet was just applied, after B's: A's gamepad holds buttons
\* and B's session is as B's only packet, eleven seconds earlier, left it.
MultiSlotFrameWitness ==
    /\ host.multi_gamepad
    /\ last.op = "recv" /\ last.reason = "OK"
    /\ \E A \in DOMAIN host.clients, B \in DOMAIN host.clients :
          /\ A # B
          /\ host.clients[A].gamepad # None /\ host.clients[B].gamepad # None
          /\ host.clients[A].last_seq = <<2>> /\ host.clients[A].last_time = now
          /\ host.clients[A].gamepad[1].sent.buttons # {}
          /\ host.clients[B].last_seq = <<1>> /\ host.clients[B].last_time < now
          /\ host.clients[B].gamepad[1].sent = Neutral
          /\ Len(host.clients[A].latency_samples) = 2
          /\ Len(host.clients[B].latency_samples) = 1

OutsideWindow(c, t, timestamp) ==
    \/ perf_counter(t) - timestamp > c.max_timestamp_age
    \/ perf_counter(t) - timestamp < -c.max_timestamp_future

\* C6: a packet whose age is greater than max_timestamp_age or less than
\* -max_timestamp_future is always rejected, with the reason "Invalid
\* timestamp" when it reaches the timestamp stage, and the loop iteration that
\* receives it changes no session and no gamepad; a packet whose age lies in
\* [-max_timestamp_future, max_timestamp_age] is never rejected with that
\* reason.
TimestampWindow ==
    \A data \in Datagrams(cfg, now, Ages(cfg)) : \A addr \in Addrs :
        LET p == PacketOf(data, addr)
            c == check_packet(sec, cfg, now, p)
        IN  IF OutsideWindow(cfg, now, data.state.timestamp)
            THEN /\ ~c.allowed
                 /\ FailingStages(Swept(sec, now), cfg, now, p) \cap 1..3 = {}
                       => c.reason = "Invalid timestamp"
                 /\ \A e \in Envs :
                       LET r == recv_datagram(host, sec, cfg, now, data, addr, e)
                       IN  /\ r.host = host
                           /\ r.reason \in {c.reason, "bad packet", "bad version"}
            ELSE c.reason # "Invalid timestamp"

\* A packet was just rejected for its timestamp while a gamepad holds buttons.
TimestampWindowWitness ==
    /\ last.op = "recv" /\ last.reason = "Invalid timestamp"
    /\ \/ \E cid \in DOMAIN host.clients :
             /\ host.clients[cid].gamepad # None
             /\ host.clients[cid].gamepad[1].sent.buttons # {}
       \/ /\ host.vg_single # None
          /\ host.vg_single[1].sent.buttons # {}

----------------------------------------------------------------------------
(* Properties of the wire format (SpecProtocol and SpecHost)                 *)

\* The supported version and every field within its declared width.
DeclaredWidths(state) ==
    /\ state.version = PROTOCOL_VERSION
    /\ ~state.client_id.neg /\ Len(state.client_id.digits) <= 2
    /\ state.sequence \in 0..65535 /\ state.buttons \in 0..65535
    /\ state.lt \in 0..255 /\ state.rt \in 0..255
    /\ \A axis \in {state.lx, state.ly, state.rx, state.ry} : axis \in -32768..32767
    /\ ~state.timestamp.neg /\ Len(state.timestamp.digits) <= 4

\* C11: for every GamepadState of the supported version whose fields lie in
\* their declared widths, pack gives a buffer of the fixed packet length and
\* unpack of that buffer gives the state back, field for field.
RoundTrip ==
    DeclaredWidths(wire.state) =>
        /\ wire.packed =>
              /\ wire.data # <<>>
              /\ ~wire.mangled => Len(wire.data[1]) = PACKET_SIZE
        /\ wire.unpacked /\ ~wire.mangled => wire.out = <<wire.state>>

\* A state with the largest client identifier, timestamp and button mask and
\* the lowest stick positions came back from unpack as it was packed.
RoundTripWitness ==
    /\ wire.unpacked /\ ~wire.mangled
    /\ wire.out = <<wire.state>>
    /\ wire.state.client_id = MaxI /\ wire.state.timestamp = MaxQ
    /\ wire.state.buttons = 65535 /\ wire.state.lx = -32768
    /\ wire.state.ly = 32767 /\ wire.state.lt = 255

\* C13: validate_gamepad_state accepts a state if and only if its version is
\* the supported one and every field lies within its declared width.
ValidateIffDeclaredWidths ==
    wire.valid # <<>> => (wire.valid[1] <=> DeclaredWidths(wire.state))

\* The buffers that are too short, too long or of another version, among
\* those that may arrive in place of buf.
Malformed(buf) ==
    {b \in Mangled(buf) : \/ Len(b) < PACKET_SIZE
                          \/ Len(b) > MAX_PACKET_SIZE
                          \/ b[1] # PROTOCOL_VERSION}

\* C12: unpack raises for every buffer shorter than the packet size, longer
\* than the maximum packet size or of another protocol version, and the loop
\* iteration that receives such a buffer leaves the admission controller, the
\* sessions and the gamepads as they were.
MalformedDropped ==
    \A cid \in ClientIds :
        LET pose == CHOOSE q \in Poses : q.buttons # 0
            buf == sent(Datagram(cid, 1, pose, perf_counter(now)).state)
        IN  \A b \in Malformed(buf) :
                /\ unpack(decode(b)) = <<>>
                /\ \A e \in MetEnvs :
                      LET r == recv_datagram(host, sec, cfg, now, received(b),
                                             HomeAddr(cid), e)
                      IN  r.host = host /\ r.sec = sec /\ r.reason = "bad packet"

\* A malformed datagram was just dropped while a gamepad holds buttons and the
\* admission controller knows a client.
MalformedDroppedWitness ==
    /\ last.op = "recv" /\ last.reason = "bad packet"
    /\ DOMAIN sec.clients # {}
    /\ \/ \E cid \in DOMAIN host.clients :
             /\ host.clients[cid].gamepad # None
             /\ host.clients[cid].gamepad[1].sent.buttons # {}
       \/ /\ host.vg_single # None
          /\ host.vg_single[1].sent.buttons # {}

----------------------------------------------------------------------------
(* Properties of the sessions (SpecSession and SpecHost)                     *)

\* The session of client cid, if there is one: in multi-slot mode its entry,
\* in single-owner mode the owner's state.
SessionOf(h, cid) ==
    IF h.multi_gamepad
    THEN IF cid \in DOMAIN h.clients
         THEN <<[last_seq |-> h.clients[cid].last_seq,
                 last_time |-> h.clients[cid].last_time,
                 gamepad |-> h.clients[cid].gamepad]>>
         ELSE <<>>
    ELSE IF h.owner = <<cid>>
         THEN <<[last_seq |-> h.last_seq_single,
                 last_time |-> h.last_time_single,
                 gamepad |-> h.vg_single]>>
         ELSE <<>>

\* The number of updates applied so far for client cid (every applied packet
\* leaves one latency sample, fewer than the window holds).
Applied(h, cid) ==
    IF h.multi_gamepad
    THEN IF cid \in DOMAIN h.clients THEN Len(h.clients[cid].latency_samples) ELSE 0
    ELSE Len(h.latency_samples_single)

\* A packet of client cid would start a session.
NewSession(h, cid) ==
    IF h.multi_gamepad
    THEN cid \notin DOMAIN h.clients /\ Cardinality(DOMAIN h.clients) < MAX_CONTROLLERS
    ELSE h.owner = None

\* The loop receives fresh datagrams of client cid with the sequence numbers
\* seqs, one after the other at time t; admitted tells whether all passed the
\* admission check.
RECURSIVE Feed(_, _, _, _)
Feed(r, t, cid, seqs) ==
    IF seqs = <<>> THEN r
    ELSE LET data == Datagram(cid, Head(seqs), CHOOSE pose \in Poses : pose.buttons = 0,
                              perf_counter(t))
             r1 == recv_datagram(r.host, r.sec, cfg, t, data, HomeAddr(cid), DriverWorks)
         IN  Feed([host |-> r1.host, sec |-> r1.sec,
                   admitted |-> r.admitted /\ r1.reason = "OK"],
                  t, cid, Tail(seqs))

Fed(cid, seqs) == Feed([host |-> host, sec |-> sec, admitted |-> TRUE], now, cid, seqs)

ReportOf(pose) ==
    [buttons |-> {b \in ButtonMapping : HasBit(pose.buttons, b)},
     lt |-> pose.lt, rt |-> pose.rt, lx |-> pose.lx, ly |-> pose.ly,
     rx |-> pose.rx, ry |-> pose.ry]

\* C15: an admitted packet of a session is dropped, leaving the last accepted
\* sequence number, the last-accepted time and the gamepad unchanged, exactly
\* when its sequence number equals the last accepted one modulo 2^16; every
\* other admitted packet, older or wrapped (0 after 65535) included, and the
\* first packet of a session, is applied and becomes the baseline.
SequenceCheck ==
    \A data \in SessionDatagrams(now) :
        LET cid == data.state.client_id
            r == recv_datagram(host, sec, cfg, now, data, HomeAddr(cid), DriverWorks)
            before == SessionOf(host, cid)
            after == SessionOf(r.host, cid)
        IN  r.reason = "OK" /\ after # <<>> =>
                IF /\ before # <<>> /\ before[1].last_seq # None
                   /\ (data.state.sequence - before[1].last_seq[1]) % 65536 = 0
                THEN /\ after = before
                     /\ Applied(r.host, cid) = Applied(host, cid)
                ELSE /\ after[1].last_seq = <<data.state.sequence>>
                     /\ after[1].last_time = now
                     /\ Applied(r.host, cid) = Applied(host, cid) + 1
                     /\ after[1].gamepad # None =>
                           after[1].gamepad[1].sent = ReportOf(data.state)

\* The only client seen had three packets admitted and two applied, one being
\* dropped as a duplicate; the last accepted sequence number, 0, was accepted
\* a second ago.
SequenceCheckWitness ==
    /\ last.op = "recv" /\ last.reason = "OK"
    /\ host.packet_count = 3
    /\ \E cid \in ClientIds :
          /\ DOMAIN sec.clients = {cid}
          /\ SessionOf(host, cid) # <<>>
          /\ SessionOf(host, cid)[1].last_seq = <<0>>
          /\ SessionOf(host, cid)[1].last_time < now
          /\ Applied(host, cid) = 2

\* C16: in single-owner mode the first admitted client identifier becomes the
\* owner, and while an owner is set a loop iteration on a datagram of another
\* identifier changes neither the owner, nor the last accepted sequence
\* number, nor the last-accepted time, nor the gamepad.
SingleOwner ==
    ~host.multi_gamepad =>
        \A data \in Datagrams(cfg, now, {0}) : \A e \in MetEnvs :
            LET cid == data.state.client_id
                r == recv_datagram(host, sec, cfg, now, data, HomeAddr(cid), e)
            IN  /\ host.owner = None /\ r.reason = "OK" => r.host.owner = <<cid>>
                /\ host.owner # None /\ host.owner # <<cid>> =>
                      /\ r.host.owner = host.owner
                      /\ r.host.last_seq_single = host.last_seq_single
                      /\ r.host.last_time_single = host.last_time_single
                      /\ r.host.last_buttons_single = host.last_buttons_single
                      /\ r.host.vg_single = host.vg_single

\* A packet of client 0 was admitted just now, while client 1, whose last
\* packet was accepted earlier, is the owner and its gamepad holds buttons.
SingleOwnerWitness ==
    /\ ~host.multi_gamepad
    /\ last.op = "recv" /\ last.reason = "OK"
    /\ host.owner = <<1>>
    /\ host.last_time_single < now
    /\ 0 \in DOMAIN sec.clients /\ sec.clients[0].last_seen = now
    /\ 1 \in DOMAIN sec.clients /\ sec.clients[1].last_seen < now
    /\ host.vg_single # None /\ host.vg_single[1].sent.buttons # {}

\* C17: in single-owner mode, once no packet of the owner has been accepted
\* for longer than the liveness timeout (0.5 s), the next admitted packet of
\* any client claims ownership and is applied whatever its sequence number,
\* and a receive timeout leaves no owner behind, for every owner identifier.
OwnerTimeout ==
    ~host.multi_gamepad /\ host.owner # None /\ 2 * (now - host.last_time_single) > 1 =>
        /\ last.op # "timeout"
        /\ \A data \in SentDatagrams(cfg, now) :
              LET cid == data.state.client_id
                  r == recv_datagram(host, sec, cfg, now, data, HomeAddr(cid), DriverWorks)
              IN  r.reason = "OK" =>
                      /\ r.host.owner = <<cid>>
                      /\ r.host.last_seq_single = <<data.state.sequence>>
                      /\ r.host.last_time_single = now

----------------------------------------------------------------------------
(* Properties of the slots (SpecSlots and SpecLive)                          *)

\* C18: the host never tracks more than MAX_CONTROLLERS sessions, and while it
\* tracks that many a loop iteration on a packet of a further client
\* identifier, admitted or not, creates no session and leaves the existing
\* sessions and their gamepads unchanged.
SlotCapacity ==
    /\ Cardinality(DOMAIN host.clients) <= MAX_CONTROLLERS
    /\ Cardinality(DOMAIN host.clients) = MAX_CONTROLLERS =>
          \A cid \in SlotClientIds \ DOMAIN host.clients :
          \A seq \in Sequences : \A pose \in Poses : \A e \in MetEnvs :
              LET data == Datagram(cid, seq, pose, perf_counter(now))
                  r == recv_datagram(host, sec, cfg, now, data, HomeAddr(cid), e)
              IN  /\ r.host.clients = host.clients
                  /\ r.host.client_slot_order = host.client_slot_order

\* Four clients hold sessions and the packet of the fifth was just admitted.
SlotCapacityWitness ==
    /\ last.op = "recv" /\ last.reason = "OK"
    /\ Cardinality(DOMAIN host.clients) = MAX_CONTROLLERS
    /\ host.packet_count = MAX_CONTROLLERS + 1
    /\ \E cid \in SlotClientIds \ DOMAIN host.clients :
          cid \in DOMAIN sec.clients /\ sec.clients[cid].last_seen = now

\* A session without an accepted packet for longer than the liveness window.
Silent(cid) ==
    cid \in DOMAIN host.clients /\ now - host.clients[cid].last_time > LivenessWindow

\* C19: every session that has had no accepted packet for longer than the
\* liveness window is eventually evicted, whatever the other clients send.
SilentEvicted ==
    \A cid \in SlotClientIds : Silent(cid) ~> cid \notin DOMAIN host.clients

\* C20: every session's slot index lies in 1..MAX_CONTROLLERS and no two
\* sessions have the same slot index.
SlotsDistinct ==
    \A a \in DOMAIN host.clients :
        /\ host.clients[a].slot \in 1..MAX_CONTROLLERS
        /\ \A b \in DOMAIN host.clients \ {a} :
              host.clients[b].slot # host.clients[a].slot

----------------------------------------------------------------------------
(* Properties of the routing (SpecRoam)                                      *)

\* C21: in multi-slot mode an admitted packet of a client identifier that has
\* a session, whatever address it comes from, leaves the set of sessions, the
\* slot order and every other identifier's session as they were, keeps the
\* session's slot, name and colour, and is applied to the session's own
\* gamepad (or dropped as a duplicate) with the new address recorded.
RoutedByIdentifier ==
    host.multi_gamepad =>
        \A data \in Datagrams(cfg, now, {0}) : \A addr \in Addrs : \A e \in MetEnvs :
            LET cid == data.state.client_id
                r == recv_datagram(host, sec, cfg, now, data, addr, e)
            IN  cid \in DOMAIN host.clients /\ r.reason = "OK" =>
                    LET old == host.clients[cid]
                        new == r.host.clients[cid]
                    IN  /\ DOMAIN r.host.clients = DOMAIN host.clients
                        /\ r.host.client_slot_order = host.client_slot_order
                        /\ \A other \in DOMAIN host.clients \ {cid} :
                              r.host.clients[other] = host.clients[other]
                        /\ new.slot = old.slot /\ new.name = old.name
                        /\ new.color = old.color
                        /\ new.addr = <<addr>>
                        /\ IF SameSequence(old.last_seq, data.state.sequence)
                           THEN new = [old EXCEPT !.addr = <<addr>>]
                           ELSE /\ Len(new.latency_samples) = Len(old.latency_samples) + 1
                                /\ new.gamepad =
                                      IF old.gamepad = None THEN None
                                      ELSE <<_apply_gamepad(old.gamepad[1],
                                                data.state.buttons, old.last_buttons,
                                                data.state, e.sink).gamepad>>

\* A client's second packet was just applied to its gamepad, coming from
\* another address than its first, the address another session was last
\* heard from.
RoutedByIdentifierWitness ==
    /\ host.multi_gamepad
    /\ last.op = "recv" /\ last.reason = "OK"
    /\ \E cid \in DOMAIN host.clients, other \in DOMAIN host.clients :
          /\ cid # other
          /\ cid \in DOMAIN sec.clients /\ sec.clients[cid].last_seen = now
          /\ host.clients[cid].addr # <<<<sec.clients[cid].ip_address, Port>>>>
          /\ host.clients[other].addr = host.clients[cid].addr
          /\ Len(host.clients[cid].latency_samples) = 2
          /\ Len(host.clients[other].latency_samples) = 1
          /\ host.clients[cid].gamepad # None
          /\ host.clients[cid].gamepad[1].sent.buttons # {}
          /\ host.clients[other].gamepad # None
          /\ host.clients[other].gamepad[1].sent = Neutral

\* C22: in multi-slot mode, when the gamepad of a newly admitted client
\* identifier cannot be created while a slot is free, the identifier still
\* gets a session, one without a gamepad, listed among the sessions and in the
\* slot order.
FailedSinkTracked ==
    host.multi_gamepad /\ host.VGAME_AVAILABLE =>
        \A data \in Datagrams(cfg, now, {0}) : \A e \in MetEnvs :
            LET cid == data.state.client_id
                r == recv_datagram(host, sec, cfg, now, data, HomeAddr(cid), e)
            IN  /\ ~e.created /\ r.reason = "OK"
                /\ cid \notin DOMAIN host.clients
                /\ Cardinality(DOMAIN host.clients) < MAX_CONTROLLERS
                => /\ cid \in DOMAIN r.host.clients
                   /\ r.host.clients[cid].gamepad = None
                   /\ \E i \in 1..Len(r.host.client_slot_order) :
                         r.host.client_slot_order[i] = cid

----------------------------------------------------------------------------
(* Properties of the gamepads (SpecHost)                                     *)

\* The mapped buttons of a mask.
MaskButtons(mask) == {b \in ButtonMapping : HasBit(mask, b)}

\* The gamepads the host drives, each with its session's last-applied mask.
Sinks(h) ==
    {[gamepad |-> h.clients[cid].gamepad[1],
      last_buttons |-> h.clients[cid].last_buttons] :
        cid \in {k \in DOMAIN h.clients : h.clients[k].gamepad # None}}
    \cup (IF h.vg_single # None
          THEN {[gamepad |-> h.vg_single[1], last_buttons |-> h.last_buttons_single]}
          ELSE {})

\* C23: whatever packets were applied and whichever driver calls failed, the
\* buttons held on each gamepad are those of its session's last-applied mask,
\* and the presses of a packet (the mapped bits set in its mask and clear in
\* the last-applied mask) are of buttons not held on the gamepad.
PressOnlyChanged ==
    \A k \in Sinks(host) :
        /\ k.gamepad.sent.buttons = MaskButtons(k.last_buttons)
        /\ \A pose \in Poses :
              (MaskButtons(pose.buttons) \ MaskButtons(k.last_buttons))
                  \cap k.gamepad.sent.buttons = {}

\* C24: when a receive timeout ends a session (a stale multi-slot session is
\* deleted, or the single owner is cleared), the gamepad that served it shows
\* the neutral report: no button held, triggers and sticks at zero.
ResetBeforeRelease ==
    [][last'.op = "timeout" =>
          /\ host.multi_gamepad =>
                \A cid \in DOMAIN host.clients \ DOMAIN host'.clients :
                    host.clients[cid].gamepad # None =>
                        released(host, now)[cid].sent = Neutral
          /\ ~host.multi_gamepad /\ host.owner # None /\ host'.owner = None
             /\ host'.vg_single # None
                => host'.vg_single[1].sent = Neutral]_vars

----------------------------------------------------------------------------
(* Properties of the receive thread (SpecRun and SpecStop)                   *)

\* C25: at most one receive thread is alive; start() while a receive thread
\* is alive starts no thread and changes nothing; stop() sets the stop event,
\* leaves no open socket and no further thread, a host that is not running
\* stays so, and a second stop() changes nothing.
StartStopIdempotent ==
    /\ Cardinality(Alive(run)) <= 1
    /\ Alive(run) # {} => start(run) = run
    /\ LET once == stop(run)
       IN  /\ once.stop /\ once.sock # "open"
           /\ once.threads = run.threads
           /\ Alive(run) = {} => Alive(once) = {}
           /\ stop(once) = once

\* start() was called twice and started one thread, which has returned from
\* _run after the first stop(); the second stop() was just called.
StartStopIdempotentWitness ==
    /\ last.op = "stop"
    /\ run.starts = 2 /\ run.stops = 2
    /\ Len(run.threads) = 1 /\ run.threads[1].pc = "done"
    /\ run.stop /\ run.sock = "closed"

\* C26: whatever datagram a loop iteration receives and whatever the gamepad
\* and the callbacks do while it is handled, the receive thread goes on to
\* the head of the loop.
LoopGoesOn ==
    [][\A i \in DOMAIN run.threads :
          run.threads[i].pc = "recv" /\ last'.op = "recv"
              => run'.threads[i].pc = "top"]_vars

\* C28: once the stop event is set, every receive thread that is alive,
\* wherever it is (before the loop, in a backoff wait, at the head of the
\* loop, in recvfrom), eventually leaves _run.
StopTerminates ==
    \A i \in 1..MaxStarts :
        (run.stop /\ i \in Alive(run)) ~> (i \notin Alive(run))

\* The thread has returned from _run, the stop event having cut short the
\* backoff wait after its first failed attempt to create the gamepad.
StopTerminatesWitness ==
    /\ run.stop
    /\ last.op = "top"
    /\ ~host.multi_gamepad /\ host.VGAME_AVAILABLE /\ host.vg_single = None
    /\ Len(run.threads) = 1
    /\ run.threads[1] = [pc |-> "done", attempt |-> 1]

----------------------------------------------------------------------------
(* Properties of the block table under concurrent calls (SpecRace)           *)

\* C27: whatever way the steps of block_ip / unblock_ip interleave with those
\* of a check_packet call and its sweep, no step of either thread raises, and
\* when check_packet returns the block table is one that the overlapping
\* calls leave in some sequential order.
BlockTableRaceFree ==
    /\ inflight.failed = {}
    /\ inflight.recv.pc = "returned" => inflight.recv.serial

----------------------------------------------------------------------------
(* Properties of the violation counter (SpecSecurity)                        *)

\* The reasons of the rejections that count as violations of the client.
CountedReasons ==
    {"Invalid timestamp", "Client rate limit exceeded", "Too many clients from IP"}

\* The violations counted for client cid in manager s.
Violations(s, cid) == IF cid \in DOMAIN s.clients THEN s.clients[cid].violations ELSE 0

\* C29: every rejection as invalid timestamp, client rate limit exceeded or
\* too many clients from IP leaves the client identifier with a security
\* record whose violation counter is one more than before the call (none
\* counting as zero), and blocked when that reaches the threshold.
ViolationCounted ==
    \A p \in AllPackets :
        LET r == check_packet(sec, cfg, now, p)
            before == Violations(Swept(sec, now), p.client_id)
        IN  r.reason \in CountedReasons =>
                /\ p.client_id \in DOMAIN r.s.clients
                /\ r.s.clients[p.client_id].violations = before + 1
                /\ before + 1 >= cfg.auto_block_threshold =>
                      is_blocked(r.s.clients[p.client_id], now)

\* No step lowers the violation counter of a record or removes the record,
\* other than a check_packet call whose housekeeping sweep evicts it.
CounterKept ==
    \A cid \in DOMAIN sec.clients :
        (cid \notin DOMAIN sec'.clients
            \/ sec'.clients[cid].violations < sec.clients[cid].violations)
        => /\ last'.op = "check_packet"
           /\ cid \notin DOMAIN Swept(sec, now).clients

\* A violation of a client whose counter has reached the threshold and whose
\* block is over blocks it again until now + block_duration.
BlockedAgain ==
    \A p \in AllPackets :
        LET r == check_packet(sec, cfg, now, p)
            s0 == Swept(sec, now)
        IN  /\ r.reason \in CountedReasons
            /\ Violations(s0, p.client_id) >= cfg.auto_block_threshold
            => r.s.clients[p.client_id].blocked_until = now + cfg.block_duration

\* C30: the violation counter of a security record never decreases while the
\* record exists, whether time passes, packets are admitted or a block
\* expires; only the eviction of the record by the housekeeping sweep resets
\* it, and after the expiry of a block one more violation blocks again.
ViolationsSticky ==
    /\ [][CounterKept]_vars
    /\ []BlockedAgain

\* A client blocked at the threshold, its block over, was just rejected for
\* its timestamp: its counter is past the threshold and it is blocked again.
ViolationsStickyWitness ==
    /\ last.op = "check_packet" /\ last.reason = "Invalid timestamp"
    /\ \E cid \in DOMAIN sec.clients :
          /\ sec.clients[cid].violations = cfg.auto_block_threshold + 1
          /\ sec.clients[cid].blocked_until = now + cfg.block_duration
          /\ sec.clients[cid].packet_count >= 1
          /\ sec.clients[cid].first_seen < now

----------------------------------------------------------------------------
(* Properties of the housekeeping sweep (SpecSweep)                          *)

\* The record is blocked at time t or was seen within the inactivity window.
Kept(client, t) == t < client.blocked_until \/ client.last_seen >= t - InactiveWindow

\* C31: after a housekeeping sweep no expired IP block entry remains, no
\* security record remains that is neither blocked nor seen within the
\* inactivity window, every record that is blocked or was seen within the
\* window is still there with its bucket, and no per-IP client set is empty
\* nor has an IP without clients a bucket.
SweepPurges ==
    LET s1 == _cleanup_old_data(sec, now)
    IN  /\ \A ip \in DOMAIN s1.blocked_ips : now < s1.blocked_ips[ip]
        /\ \A cid \in DOMAIN s1.clients : Kept(s1.clients[cid], now)
        /\ \A cid \in DOMAIN sec.clients :
              Kept(sec.clients[cid], now)
              => /\ cid \in DOMAIN s1.clients
                 /\ s1.clients[cid] = sec.clients[cid]
                 /\ cid \in DOMAIN sec.client_buckets
                 /\ cid \in DOMAIN s1.client_buckets
                 /\ s1.client_buckets[cid] = sec.client_buckets[cid]
        /\ \A ip \in DOMAIN s1.ip_clients : s1.ip_clients[ip] # {}
        /\ \A ip \in DOMAIN s1.ip_buckets :
              ip \in DOMAIN s1.ip_clients /\ s1.ip_clients[ip] # {}

\* The sweep is due on a manager that holds an expired IP block, a stale
\* record whose client is blocked, and a stale record of an unblocked client
\* who is the only one of its IP.
SweepPurgesWitness ==
    /\ cleanup_due(sec, now)
    /\ \E ip \in DOMAIN sec.blocked_ips : now >= sec.blocked_ips[ip]
    /\ \E cid \in DOMAIN sec.clients :
          /\ sec.clients[cid].last_seen < now - InactiveWindow
          /\ is_blocked(sec.clients[cid], now)
    /\ \E cid \in DOMAIN sec.clients :
          /\ ~Kept(sec.clients[cid], now)
          /\ sec.clients[cid].ip_address \in DOMAIN sec.ip_buckets
          /\ Members(sec, sec.clients[cid].ip_address) = {cid}

----------------------------------------------------------------------------
(* Properties of the event log (SpecEvents)                                  *)

\* The last n elements of a sequence, all of them when it has fewer.
Newest(seq, n) ==
    SubSeq(seq, (IF Len(seq) > n THEN Len(seq) - n ELSE 0) + 1, Len(seq))

\* The log never holds more than EventLogCap events.
EventLogCapped == Len(sec.security_events) <= EventLogCap

\* get_recent_events(limit) is the newest limit events of the log.
RecentEvents ==
    \A limit \in Limits :
        /\ Len(get_recent_events(sec, limit)) <= limit
        /\ get_recent_events(sec, limit) = Newest(sec.security_events, limit)

\* A step appends its events (none, one or two) to the log and keeps the
\* newest EventLogCap; block_ip logs its event, and get_recent_events leaves
\* the log alone.
RingStep ==
    \E n \in 0..2 :
        /\ n <= Len(sec'.security_events)
        /\ sec'.security_events =
              Newest(sec.security_events \o Newest(sec'.security_events, n),
                     EventLogCap)
        /\ last'.op = "block_ip"
           => /\ n = 1
              /\ sec'.security_events[Len(sec'.security_events)].type = "manual_block"
        /\ last'.op = "get_recent_events" => n = 0

\* C32: the event log never holds more than 1000 events and always keeps the
\* most recent ones in order, and get_recent_events(limit) returns at most
\* limit events, the most recent ones, for every limit >= 0, without changing
\* the log.
EventLogBounded ==
    /\ []EventLogCapped
    /\ [][RingStep]_vars
    /\ []RecentEvents

----------------------------------------------------------------------------
(* Properties of the buckets of the admission controller (SpecSecurity)      *)

\* The tokens the bucket of ip holds at time t; a bucket not made yet is made
\* full.
IpTokens(s, c, t, ip) ==
    IF ip \in DOMAIN s.ip_buckets THEN Level(s.ip_buckets[ip], t)
    ELSE c.rate_limit_burst

\* The same for the bucket of client cid.
ClientTokens(s, c, t, cid) ==
    IF cid \in DOMAIN s.client_buckets THEN Level(s.client_buckets[cid], t)
    ELSE c.rate_limit_burst

\* C33: a check_packet call that ends in a rejection, at whatever stage,
\* removes no token from the bucket of the packet's IP nor from the bucket of
\* its client.
RejectionTakesNoToken ==
    \A p \in AllPackets :
        LET r == check_packet(sec, cfg, now, p)
            s0 == Swept(sec, now)
        IN  ~r.allowed
            => /\ IpTokens(r.s, cfg, now, p.ip) = IpTokens(s0, cfg, now, p.ip)
               /\ ClientTokens(r.s, cfg, now, p.client_id) =
                      ClientTokens(s0, cfg, now, p.client_id)

----------------------------------------------------------------------------
(* Properties of the receive thread on a failing socket (SpecTransport)      *)

\* Once the socket of a host that is not stopped is unusable, the receive
\* thread leaves the loop (or the host is stopped).
FailedSocketEndsLoop ==
    [](run.sock = "broken" /\ ~run.stop => <>(Alive(run) = {} \/ run.stop))

\* A failure to bind is told to the caller.
BindFailureReported ==
    [](last.op = "bind error"
       => \E k \in DOMAIN last.status : last.status[k] = "bind failed")

\* C34: when the socket becomes unusable while the host has not been stopped
\* the receive loop exits and the failure is reported, the loop does not go
\* on retrying the receive for ever, and a failure to bind the socket at
\* startup is reported as well.
TransportFailureReported ==
    /\ FailedSocketEndsLoop
    /\ BindFailureReported

----------------------------------------------------------------------------
(* Properties of the join and leave notifications (SpecSlots)                *)

\* The datagrams that may arrive now: one of each client, and the short ones.
ArrivingDatagrams ==
    {Datagram(cid, ticks + 1, CHOOSE pose \in Poses : pose.buttons = 0,
              perf_counter(now)) : cid \in SlotClientIds}
        \cup ShortDatagrams(now)

\* Notifications n of kind type tell exactly the sessions S, one each, with
\* the slot the session has in host h.
Tells(n, type, S, h) ==
    /\ Len(n) = Cardinality(S)
    /\ \A k \in DOMAIN n :
          /\ n[k].type = type
          /\ n[k].client_id \in S
          /\ n[k].slot = h.clients[n[k].client_id].slot
    /\ \A cid \in S : \E k \in DOMAIN n : n[k].client_id = cid

\* host h1 follows host h: the sessions of both have kept their slot.
SlotsKept(h, h1) ==
    \A cid \in DOMAIN h.clients \cap DOMAIN h1.clients :
        h1.clients[cid].slot = h.clients[cid].slot

\* C35: in multi-slot mode a loop iteration emits one joined notification,
\* with identifier and slot, for the session it creates and none otherwise (a
\* refused client produces none), deletes no session on a datagram, emits on
\* a timeout one left notification, with the identifier and the slot of the
\* session, for each session it evicts and none otherwise, and creates none:
\* the sessions are the identifiers joined and not yet left.
JoinLeavePaired ==
    /\ \A data \in ArrivingDatagrams, e \in MetEnvs :
          LET addr == HomeAddr(data.state.client_id)
              r == recv_datagram(host, sec, cfg, now, data, addr, e)
              n == notified_datagram(host, sec, cfg, now, data, addr, e)
          IN  /\ DOMAIN host.clients \subseteq DOMAIN r.host.clients
              /\ SlotsKept(host, r.host)
              /\ Tells(n, "PLAYER_JOIN",
                       DOMAIN r.host.clients \ DOMAIN host.clients, r.host)
    /\ LET h1 == recv_timeout(host, now)
           n == notified_timeout(host, now)
       IN  /\ DOMAIN h1.clients \subseteq DOMAIN host.clients
           /\ SlotsKept(host, h1)
           /\ Tells(n, "PLAYER_LEAVE", DOMAIN host.clients \ DOMAIN h1.clients, host)

\* Client 0, who joined with its one admitted packet, was evicted by the
\* timeout just handled, others are still in their slots and a stale session
\* waits for the next timeout.
JoinLeavePairedWitness ==
    /\ last.op = "timeout"
    /\ 0 \in DOMAIN sec.clients /\ sec.clients[0].packet_count = 1
    /\ 0 \notin DOMAIN host.clients
    /\ host.clients # EmptyMap

----------------------------------------------------------------------------
(* Properties of the rates let through (SpecRate)                            *)

\* Every bucket holds between no token and its burst.
LevelsInRange ==
    /\ \A ip \in DOMAIN sec.ip_buckets :
          /\ sec.ip_buckets[ip].tokens >= 0
          /\ sec.ip_buckets[ip].tokens <= sec.ip_buckets[ip].burst
          /\ Level(sec.ip_buckets[ip], now) <= sec.ip_buckets[ip].burst
    /\ \A cid \in DOMAIN sec.client_buckets :
          /\ sec.client_buckets[cid].tokens >= 0
          /\ sec.client_buckets[cid].tokens <= sec.client_buckets[cid].burst
          /\ Level(sec.client_buckets[cid], now) <= sec.client_buckets[cid].burst

\* The calls i..j that passed the per-client bucket of cid, and those that
\* passed the per-IP bucket of ip.
ClientPasses(cid, i, j) ==
    {k \in i..j : passed[k].client_id = cid /\ passed[k].client_passed}

IpPasses(ip, i, j) == {k \in i..j : passed[k].ip = ip /\ passed[k].ip_passed}

\* From call i to call j the record of no more than burst + rate * T packets
\* of a client pass its bucket, T the time from i to j, unless the record of
\* the client was evicted on the way.
ClientRateBound ==
    \A cid \in ClientIds : \A i \in DOMAIN passed : \A j \in i..Len(passed) :
        (\A k \in (i + 1)..j : cid \notin passed[k].evicted)
        => Cardinality(ClientPasses(cid, i, j)) <=
               cfg.rate_limit_burst + cfg.rate_limit_max * (passed[j].t - passed[i].t)

\* The same per source IP, with the per-IP rate.
IpRateBound ==
    \A ip \in Ips : \A i \in DOMAIN passed : \A j \in i..Len(passed) :
        Cardinality(IpPasses(ip, i, j)) <=
            cfg.rate_limit_burst + cfg.ip_rate_limit_max * (passed[j].t - passed[i].t)

\* C36: the level of a bucket stays within [0, burst]; in every window of
\* length T in which the record of a client is not evicted at most
\* burst + rate * T of its packets pass the per-client bucket; and in every
\* window at most burst + ip_rate * T packets of a source IP pass the per-IP
\* bucket.
RateBound ==
    /\ LevelsInRange
    /\ ClientRateBound
    /\ IpRateBound

----------------------------------------------------------------------------
(* Properties of the tables of the admission controller (SpecSecurity)       *)

\* Every client of a per-IP client set of manager s has a security record.
MembersHaveRecords(s) ==
    \A ip \in DOMAIN s.ip_clients : s.ip_clients[ip] \subseteq DOMAIN s.clients

\* C37: each client identifier contained in a per-IP client set has a
\* security record, and once the housekeeping sweep has evicted the record of
\* a client the identifier is in no per-IP client set, from however many
\* source IPs the client was admitted.
MapsConsistent ==
    /\ MembersHaveRecords(sec)
    /\ LET s1 == _cleanup_old_data(sec, now)
       IN  \A cid \in DOMAIN sec.clients \ DOMAIN s1.clients :
               \A ip \in DOMAIN s1.ip_clients : cid \notin s1.ip_clients[ip]

----------------------------------------------------------------------------
(* Properties of blocking across source IPs (SpecSecurity)                   *)

\* C38: packets sent from source IP X that carry client identifier C never
\* cause a packet of C from another source IP Y to be rejected as
\* client-blocked: a fresh packet of C from Y that is rejected as
\* client-blocked after two packets of C from X would have been rejected so
\* without them.
OtherIpNeverBlocks ==
    \A p1 \in SentPackets, p2 \in SentPackets, q \in Packets(cfg, now, {0}) :
        /\ p1.client_id = q.client_id /\ p2.client_id = q.client_id
        /\ p1.ip = p2.ip /\ p1.ip # q.ip
        => LET s1 == check_packet(sec, cfg, now, p1).s
               s2 == check_packet(s1, cfg, now, p2).s
           IN  check_packet(s2, cfg, now, q).reason = "Client is blocked"
               => check_packet(sec, cfg, now, q).reason = "Client is blocked"

----------------------------------------------------------------------------
(* Properties of the client cap after an eviction (SpecShared)               *)

\* C39: in multi-slot mode, once the host has evicted a session by liveness
\* timeout, a client with a new identifier that sends a fresh packet from the
\* source IP of the evicted client, tokens being available and nothing
\* blocked, is admitted and gets a session.
EvictionFreesCap ==
    \A cid \in SlotClientIds :
        LET ip == SharedAddr[1]
            data == Datagram(cid, ticks + 1, CHOOSE pose \in Poses : pose.buttons = 0,
                             perf_counter(now))
            r == recv_datagram(host, sec, cfg, now, data, SharedAddr, DriverWorks)
        IN  /\ cid \notin DOMAIN host.clients
            /\ cid \notin DOMAIN sec.clients
            /\ cid \notin Members(sec, ip)
            /\ \E gone \in DOMAIN sec.clients \ DOMAIN host.clients :
                  sec.clients[gone].ip_address = ip
            /\ ip \notin DOMAIN sec.blocked_ips
            /\ IpTokens(sec, cfg, now, ip) >= 1
            /\ ClientTokens(sec, cfg, now, cid) >= 1
            /\ Cardinality(DOMAIN host.clients) < MAX_CONTROLLERS
            => r.reason = "OK" /\ cid \in DOMAIN r.host.clients

----------------------------------------------------------------------------
(* Properties of a restart (SpecRun)                                         *)

\* C40: a start() issued after a stop() has returned leaves the host running:
\* a receive thread is alive and the stop flag is clear, wherever the previous
\* receive thread was when start() was called.
StartAfterStopRuns ==
    [][last'.op = "start" /\ run'.starts = run.starts + 1 /\ run.stops > 0
          => Alive(run') # {} /\ ~run'.stop]_vars

====
